---- MODULE Spec2Model ----
(***************************************************************************)
(* A model of the Hou (Monkey) interpreter: the Pratt parser of            *)
(* parser/parser.go and the tree-walking evaluator (evaluator package,     *)
(* the revision with environments and function calls) together with the    *)
(* object.Environment chain.                                               *)
(*                                                                         *)
(* Go pointers are modelled by addresses: every object the evaluator       *)
(* allocates gets a fresh address, every Environment is an index into the  *)
(* sequence envs.  The host nil is the object NIL; a host failure (a Go    *)
(* panic) is recorded in the field panic and aborts the evaluation.        *)
(***************************************************************************)
EXTENDS Integers, Sequences, FiniteSets, TLC

VARIABLES
    \* evaluator (evalProgram running over one Program in one Environment)
    program,    \* the Program's Statements
    pc,         \* index of the next statement of evalProgram's loop
    result,     \* evalProgram's local variable result
    done,       \* evalProgram has returned (or the process has died)
    envs,       \* every object.Environment allocated so far
    nextAddr,   \* the next unused object address
    panic,      \* "" or the message of the Go panic that killed the evaluation
    \* history of the evaluation (what a debugger stepping through Eval sees)
    evaluated,  \* top-level statements evaluated so far: index, kind of value, value
    trace,      \* statement / return / call-exit events with their call depth
    lookups,    \* every evalIdentifier call
    calls,      \* every applyFunction call on an *object.Function
    operands,   \* kinds of the operands seen by prefix, infix and isTruthy
    defs,       \* address of a Function object -> environment its literal was evaluated in
    lex,        \* environment -> environment of the literal of the function called
    \* parser
    source,     \* how the token stream was put together (for the claims only)
    tokens,     \* the token stream the lexer hands to the parser
    pos,        \* index of curToken in tokens (peekToken is the next one)
    errors,     \* Parser.errors
    statements, \* Program.Statements built so far
    pstate,     \* "parsing" or "done"
    pass,       \* 1, or 2 once the Program's String is being parsed again
    canon,      \* the String of the Program of the first pass
    \* lexer
    lexer,      \* the Lexer: input, position, readPosition, ch
    emitted,    \* the tokens NextToken has returned so far
    \* REPL
    session,    \* the lines Start has dealt with so far, and what it did with each
    \* builtins
    builtin,    \* the arguments of a call of a builtin and what it returned
    \* operators
    operation,  \* an operator, its operands, and what applying it returned
    \* parser, a call of expectPeek from outside the parsing functions
    peeked,     \* the kind the call asked for and what it returned
    \* parser, history of the last turn of the loop of ParseProgram
    parsed      \* every call of a prefix or infix parsing function made by it

evalVars == <<program, pc, result, done, envs, nextAddr, panic,
              evaluated, trace, lookups, calls, operands, defs, lex>>
parserVars == <<source, tokens, pos, errors, statements, pstate>>
tripVars == <<pass, canon>>
lexVars == <<lexer, emitted>>
otherVars == <<session, builtin, operation, peeked, parsed>>
vars == <<program, pc, result, done, envs, nextAddr, panic,
          evaluated, trace, lookups, calls, operands, defs, lex,
          source, tokens, pos, errors, statements, pstate, pass, canon,
          lexer, emitted, session, builtin, operation, peeked,
          parsed>>

---------------------------------------------------------------------------
(* Bounds of the explored inputs *)

\* longest Program handed to evalProgram
MaxStmts == 3
\* deepest nesting of applyFunction calls before the Go stack is taken as exhausted
MaxDepth == 6

---------------------------------------------------------------------------
(* The AST (package ast) *)

NilNode == [type |-> "nil"]

LetStatement(name, value) ==
    [type |-> "LetStatement", Name |-> name, Value |-> value]
ReturnStatement(value) ==
    [type |-> "ReturnStatement", ReturnValue |-> value]
ExpressionStatement(e) ==
    [type |-> "ExpressionStatement", Expression |-> e]
BlockStatement(stmts) ==
    [type |-> "BlockStatement", Statements |-> stmts]
Identifier(name) ==
    [type |-> "Identifier", Value |-> name]
\* lit is the Token's Literal, which IntegerLiteral.String prints
IntegerLiteral(lit, n) ==
    [type |-> "IntegerLiteral", Literal |-> lit, Int |-> n]
StringLiteral(s) ==
    [type |-> "StringLiteral", Str |-> s]
Boolean(b) ==
    [type |-> "Boolean", Bool |-> b]
PrefixExpression(op, right) ==
    [type |-> "PrefixExpression", Operator |-> op, Right |-> right]
InfixExpression(left, op, right) ==
    [type |-> "InfixExpression", Left |-> left, Operator |-> op, Right |-> right]
IfExpression(cond, cons, alt) ==
    [type |-> "IfExpression", Condition |-> cond, Consequence |-> cons,
     Alternative |-> alt]
FunctionLiteral(params, body) ==
    [type |-> "FunctionLiteral", Parameters |-> params, Body |-> body]
CallExpression(fn, args) ==
    [type |-> "CallExpression", Function |-> fn, Arguments |-> args]

IsStatement(node) ==
    node.type \in {"LetStatement", "ReturnStatement", "ExpressionStatement"}

---------------------------------------------------------------------------
(* int64, the type of Integer.Value and of IntegerLiteral.Value: its eight *)
(* bytes, two's complement, lowest byte first.  Go's operators work on the *)
(* bytes: a carry out of the highest byte is lost.                         *)

\* the eight bytes of n, for 0 <= n < 2^31
LowBytes(n) ==
    [i \in 1..8 |-> IF i <= 4 THEN (n \div <<1, 256, 65536, 16777216>>[i]) % 256 ELSE 0]

\* every bit turned over
Complement(bs) == [i \in 1..Len(bs) |-> 255 - bs[i]]

\* the int64 with the value n, for an n of 32 bits
Int64(n) == IF n >= 0 THEN LowBytes(n) ELSE Complement(LowBytes(0 - (n + 1)))

RECURSIVE Carried(_, _, _)
\* the bytes of the number with the columns cols, from column i on: what a
\* column holds beyond a byte is carried to the next one, and the carry out
\* of the last column is dropped
Carried(cols, i, carry) ==
    IF i > Len(cols) THEN <<>>
    ELSE <<(cols[i] + carry) % 256>>
         \o Carried(cols, i + 1, (cols[i] + carry) \div 256)

IsNegative(a) == a[Len(a)] >= 128

\* a < b for two numbers without sign
Below(a, b) ==
    \E i \in 1..Len(a) : a[i] < b[i] /\ \A j \in (i + 1)..Len(a) : a[j] = b[j]

\* -a
Neg64(a) == Carried(Complement(a), 1, 1)

\* a + b
Add64(a, b) == Carried([i \in 1..8 |-> a[i] + b[i]], 1, 0)

\* a - b
Sub64(a, b) == Carried([i \in 1..8 |-> a[i] + 255 - b[i]], 1, 1)

RECURSIVE Column(_, _, _, _)
\* the sum of the products a[i] * b[j] with i + j = k + 1, from i on
Column(a, b, k, i) ==
    IF i > k THEN 0 ELSE a[i] * b[k + 1 - i] + Column(a, b, k, i + 1)

\* a * b
Mul64(a, b) == Carried([k \in 1..8 |-> Column(a, b, k, 1)], 1, 0)

\* a < b
Less64(a, b) ==
    IF IsNegative(a) # IsNegative(b) THEN IsNegative(a) ELSE Below(a, b)

\* the bytes of |a|, a number without sign (2^63 for the least int64)
Magnitude(a) == IF IsNegative(a) THEN Neg64(a) ELSE a

\* b * d in nine bytes, for a byte d
TimesByte(b, d) == Carried([i \in 1..9 |-> IF i <= 8 THEN b[i] * d ELSE 0], 1, 0)

RECURSIVE QuoDigit(_, _, _, _)
\* the largest d of lo..hi with b * d <= r
QuoDigit(r, b, lo, hi) ==
    IF lo = hi THEN lo
    ELSE IF Below(r, TimesByte(b, (lo + hi + 1) \div 2))
    THEN QuoDigit(r, b, lo, (lo + hi + 1) \div 2 - 1)
    ELSE QuoDigit(r, b, (lo + hi + 1) \div 2, hi)

RECURSIVE DivideFrom(_, _, _, _)
\* long division of a by b # 0, both without sign, from byte i of a down:
\* r is the nine-byte remainder so far; the bytes of the quotient
DivideFrom(a, b, i, r) ==
    IF i = 0 THEN <<>>
    ELSE LET r1 == <<a[i]>> \o SubSeq(r, 1, 8)
             d == QuoDigit(r1, b, 0, 255)
             bd == TimesByte(b, d)
         IN DivideFrom(a, b, i - 1, Carried([j \in 1..9 |-> r1[j] + 255 - bd[j]], 1, 1))
            \o <<d>>

\* a / b for b # 0: the division of the magnitudes, and the sign put back
\* a division that takes the operands for unsigned integers
Quo64_Unsigned(a, b) == DivideFrom(a, b, 8, [j \in 1..9 |-> 0])

Quo64(a, b) ==
    LET q == DivideFrom(Magnitude(a), Magnitude(b), 8, [j \in 1..9 |-> 0])
    IN IF IsNegative(a) # IsNegative(b) THEN Neg64(q) ELSE q

---------------------------------------------------------------------------
(* The object system (package object) *)

INTEGER_OBJ == "INTEGER"
BOOLEAN_OBJ == "BOOLEAN"
STRING_OBJ == "STRING"
NULL_OBJ == "NULL"
RETURN_VALUE_OBJ == "RETURN_VALUE"
ERROR_OBJ == "ERROR"
FUNCTION_OBJ == "FUNCTION"

NoFn == [Parameters |-> <<>>, Body |-> NilNode, Env |-> 0]

Obj(kind, i, b, s, fn, addr) ==
    [kind |-> kind, int |-> i, bool |-> b, str |-> s, fn |-> fn, addr |-> addr]

\* the nil interface value of Go
NIL == Obj("nil", Int64(0), FALSE, "", NoFn, 0)
\* the three singletons of the evaluator
TrueObj == Obj(BOOLEAN_OBJ, Int64(0), TRUE, "", NoFn, 1)
FalseObj == Obj(BOOLEAN_OBJ, Int64(0), FALSE, "", NoFn, 2)
NULL == Obj(NULL_OBJ, Int64(0), FALSE, "", NoFn, 3)
\* the first address handed to an allocated object
FirstAddr == 4

Integer(v, addr) == Obj(INTEGER_OBJ, v, FALSE, "", NoFn, addr)
String(s, addr) == Obj(STRING_OBJ, Int64(0), FALSE, s, NoFn, addr)
Error(msg, addr) == Obj(ERROR_OBJ, Int64(0), FALSE, msg, NoFn, addr)
Function(params, body, env, addr) ==
    Obj(FUNCTION_OBJ, Int64(0), FALSE, "",
        [Parameters |-> params, Body |-> body, Env |-> env], addr)
ReturnValue(v, addr) ==
    [kind |-> RETURN_VALUE_OBJ, Value |-> v, addr |-> addr]

\* obj == nil
IsNil(obj) == obj.kind = "nil"
\* obj.Type(), for obj # nil
Type(obj) == obj.kind
\* left == right on two object.Object interface values: pointer identity
SameObject(a, b) == a.addr = b.addr

---------------------------------------------------------------------------
(* Environments (package object) *)

EmptyStore == [n \in {} |-> NIL]

NewEnvironment == [store |-> EmptyStore, outer |-> 0]

\* appends the new Environment; its index is Len of the result
NewEnclosedEnvironment(es, outer) ==
    Append(es, [store |-> EmptyStore, outer |-> outer])

RECURSIVE Get(_, _, _)
Get(es, e, name) ==
    IF name \in DOMAIN es[e].store
    THEN [obj |-> es[e].store[name], ok |-> TRUE]
    ELSE IF es[e].outer # 0
         THEN Get(es, es[e].outer, name)
         ELSE [obj |-> NIL, ok |-> FALSE]

\* a Set that assigns to the nearest environment already binding the name
RECURSIVE Set_AssignOuter(_, _, _, _)
Set_AssignOuter(es, e, name, val) ==
    IF name \notin DOMAIN es[e].store /\ es[e].outer # 0
       /\ Get(es, es[e].outer, name).ok
    THEN Set_AssignOuter(es, es[e].outer, name, val)
    ELSE [es EXCEPT ![e].store =
            [n \in DOMAIN @ \cup {name} |-> IF n = name THEN val ELSE @[n]]]

Set(es, e, name, val) ==
    [es EXCEPT ![e].store =
        [n \in DOMAIN @ \cup {name} |-> IF n = name THEN val ELSE @[n]]]

---------------------------------------------------------------------------
(* The evaluator (package evaluator).                                      *)
(* Every operator takes the evaluation state st, a record of  envs, next,  *)
(* panic, trace, lookups, calls, operands, defs and lex, and returns the   *)
(* record [val, st]; stk is the Go call stack, as the sequence of the      *)
(* environments of the pending CallExpressions.                            *)

Ret(v, st) == [val |-> v, st |-> st]
\* a Go panic: the evaluation is dead, no value is returned
Die(st, why) == [val |-> NIL, st |-> [st EXCEPT !.panic = why]]
Dead(r) == r.st.panic # ""

NilDeref == "invalid memory address or nil pointer dereference"
IndexOutOfRange == "index out of range"
DivideByZero == "integer divide by zero"
StackOverflow == "stack overflow"

Alloc(st) == [st EXCEPT !.next = @ + 1]
Log(st, ev, depth) ==
    [st EXCEPT !.trace = Append(@, [ev |-> ev, depth |-> depth])]
Saw(st, obj) == [st EXCEPT !.operands = @ \cup {obj.kind}]

newError(msg, st) == Ret(Error(msg, st.next), Alloc(st))

nativeBoolToBooleanObject(input) == IF input THEN TrueObj ELSE FalseObj

\* an isError that compares the type with a kind no object has
isError_WrongKind(obj) == IF ~IsNil(obj) THEN Type(obj) = "ERR" ELSE FALSE

isError(obj) == IF ~IsNil(obj) THEN Type(obj) = ERROR_OBJ ELSE FALSE

isTruthy(obj) ==
    CASE SameObject(obj, NULL) -> FALSE
      [] SameObject(obj, TrueObj) -> TRUE
      [] SameObject(obj, FalseObj) -> FALSE
      [] OTHER -> TRUE

evalBangOperatorExpression(right) ==
    CASE SameObject(right, TrueObj) -> FalseObj
      [] SameObject(right, FalseObj) -> TrueObj
      [] SameObject(right, NULL) -> TrueObj
      [] OTHER -> FalseObj

evalMinusPrefixOperatorExpression(right, st) ==
    IF IsNil(right) THEN Die(st, NilDeref)
    ELSE IF Type(right) # INTEGER_OBJ
    THEN newError("unknown operator: -" \o Type(right), st)
    ELSE Ret(Integer(Neg64(right.int), st.next), Alloc(st))

evalPrefixExpression(operator, right, st0) ==
    LET st == Saw(st0, right) IN
    CASE operator = "!" -> Ret(evalBangOperatorExpression(right), st)
      [] operator = "-" -> evalMinusPrefixOperatorExpression(right, st)
      [] OTHER -> IF IsNil(right) THEN Die(st, NilDeref)
                  ELSE newError("unknown operator: " \o operator \o Type(right), st)

evalIntegerInfixExpression(operator, left, right, st) ==
    LET leftVal == left.int
        rightVal == right.int
    IN CASE operator = "+" -> Ret(Integer(Add64(leftVal, rightVal), st.next), Alloc(st))
         [] operator = "-" -> Ret(Integer(Sub64(leftVal, rightVal), st.next), Alloc(st))
         [] operator = "*" -> Ret(Integer(Mul64(leftVal, rightVal), st.next), Alloc(st))
         [] operator = "/" ->
                IF rightVal = Int64(0) THEN Die(st, DivideByZero)
                ELSE Ret(Integer(Quo64(leftVal, rightVal), st.next), Alloc(st))
         [] operator = "<" -> Ret(nativeBoolToBooleanObject(Less64(leftVal, rightVal)), st)
         [] operator = ">" -> Ret(nativeBoolToBooleanObject(Less64(rightVal, leftVal)), st)
         [] operator = "==" -> Ret(nativeBoolToBooleanObject(leftVal = rightVal), st)
         [] operator = "!=" -> Ret(nativeBoolToBooleanObject(leftVal # rightVal), st)
         [] OTHER -> newError("unknown operator: " \o Type(left) \o " " \o operator
                              \o " " \o Type(right), st)

evalInfixExpression(operator, left, right, st0) ==
    LET st == Saw(Saw(st0, left), right) IN
    \* left.Type() is called first; right.Type() only when left is an Integer
    IF IsNil(left) THEN Die(st, NilDeref)
    ELSE IF Type(left) = INTEGER_OBJ /\ IsNil(right) THEN Die(st, NilDeref)
    ELSE IF Type(left) = INTEGER_OBJ /\ Type(right) = INTEGER_OBJ
    THEN evalIntegerInfixExpression(operator, left, right, st)
    ELSE IF operator = "=="
    THEN Ret(nativeBoolToBooleanObject(SameObject(left, right)), st)
    ELSE IF operator = "!="
    THEN Ret(nativeBoolToBooleanObject(~SameObject(left, right)), st)
    ELSE IF IsNil(right) THEN Die(st, NilDeref)
    ELSE IF Type(left) # Type(right)
    THEN newError("type mismatch: " \o Type(left) \o " " \o operator \o " "
                  \o Type(right), st)
    ELSE newError("unknown operator: " \o Type(left) \o " " \o operator \o " "
                  \o Type(right), st)

unwrapReturnValue(obj) ==
    IF obj.kind = RETURN_VALUE_OBJ THEN obj.Value ELSE obj

---------------------------------------------------------------------------
(* What the history records about one identifier lookup.  The lexical      *)
(* chain is taken from lex (who called which literal), not from the outer  *)
(* pointers the evaluator itself follows.                                  *)

RECURSIVE LexGet(_, _, _)
LexGet(st, e, name) ==
    IF name \in DOMAIN st.envs[e].store
    THEN [obj |-> st.envs[e].store[name], ok |-> TRUE, env |-> e]
    ELSE IF st.lex[e] # 0
         THEN LexGet(st, st.lex[e], name)
         ELSE [obj |-> NIL, ok |-> FALSE, env |-> 0]

\* name is bound in the local store of the environment of a pending call
DynBound(st, stk, name) ==
    \E i \in 1..Len(stk) : name \in DOMAIN st.envs[stk[i]].store

LookupEntry(name, env, g, st, stk) ==
    LET l == LexGet(st, env, name)
    IN [name |-> name, env |-> env, ok |-> g.ok, addr |-> g.obj.addr,
        lexOk |-> l.ok, lexAddr |-> l.obj.addr, lexEnv |-> l.env,
        callerOnly |-> DynBound(st, stk, name) /\ ~l.ok]

---------------------------------------------------------------------------

evalIdentifier(node, env, st, stk) ==
    LET g == Get(st.envs, env, node.Value)
        st1 == [st EXCEPT !.lookups =
                   Append(@, LookupEntry(node.Value, env, g, st, stk))]
    IN IF ~g.ok
       THEN newError("identifier not found: " \o node.Value, st1)
       ELSE Ret(g.obj, st1)

\* a FunctionLiteral that captures a copy of the environment
evalFunctionLiteral_CopyEnv(node, env, st) ==
    LET es == Append(st.envs, st.envs[env])
    IN [val |-> [kind |-> FUNCTION_OBJ, int |-> Int64(0), bool |-> FALSE, str |-> "",
                 fn |-> [Parameters |-> node.Parameters, Body |-> node.Body,
                         Env |-> Len(es)],
                 addr |-> st.next],
        st |-> [st EXCEPT !.envs = es, !.next = @ + 1]]

\* case *ast.FunctionLiteral of Eval
evalFunctionLiteral(node, env, st) ==
    Ret(Function(node.Parameters, node.Body, env, st.next), Alloc(st))

\* the loop of extendFunctionEnv: env.Set(param.Value, args[paramIdx])
RECURSIVE bindParameters(_, _, _, _, _)
bindParameters(params, args, paramIdx, e, st) ==
    IF paramIdx > Len(params) THEN [env |-> e, st |-> st]
    ELSE IF paramIdx > Len(args) THEN [env |-> e, st |-> Die(st, IndexOutOfRange).st]
    ELSE bindParameters(params, args, paramIdx + 1, e,
            [st EXCEPT !.envs = Set(@, e, params[paramIdx].Value, args[paramIdx])])

\* an extendFunctionEnv that encloses the most recent environment (the
\* caller's, when the call is made from a function body)
extendFunctionEnv_CallerEnv(fn, args, st) ==
    LET es == NewEnclosedEnvironment(st.envs, Len(st.envs))
    IN bindParameters(fn.fn.Parameters, args, 1, Len(es), [st EXCEPT !.envs = es])

extendFunctionEnv(fn, args, st) ==
    LET es == NewEnclosedEnvironment(st.envs, fn.fn.Env)
    IN bindParameters(fn.fn.Parameters, args, 1, Len(es), [st EXCEPT !.envs = es])

CallEntry(fn, args, x, st) ==
    [fnAddr |-> fn.addr, fnEnv |-> fn.fn.Env, defEnv |-> st.defs[fn.addr],
     newEnv |-> x.env, nparams |-> Len(fn.fn.Parameters), nargs |-> Len(args),
     aborted |-> x.st.panic # ""]

RECURSIVE Eval(_, _, _, _)
RECURSIVE evalBlockStatementFrom(_, _, _, _, _, _)
RECURSIVE evalExpressionsFrom(_, _, _, _, _, _)
RECURSIVE applyFunction(_, _, _, _)

\* the loop of evalBlockStatement from statement i on; result is its local variable
evalBlockStatementFrom(stmts, i, res, env, st, stk) ==
    IF i > Len(stmts) THEN Ret(res, st)
    ELSE LET r == Eval(stmts[i], env, st, stk)
         IN IF Dead(r) THEN r
            ELSE IF ~IsNil(r.val) /\ Type(r.val) \in {RETURN_VALUE_OBJ, ERROR_OBJ}
            THEN r
            ELSE evalBlockStatementFrom(stmts, i + 1, r.val, env, r.st, stk)

evalBlockStatement(block, env, st, stk) ==
    evalBlockStatementFrom(block.Statements, 1, NIL, env, st, stk)

\* a loop that notes the first Error and evaluates the other expressions too
evalExpressionsFrom_KeepGoing(exps, i, res, env, st, stk) ==
    IF i > Len(exps) THEN Ret(res, st)
    ELSE LET r == Eval(exps[i], env, st, stk)
         IN IF Dead(r) THEN r
            ELSE IF isError(r.val)
            THEN Ret(<<r.val>>, evalExpressionsFrom(exps, i + 1, <<>>, env, r.st, stk).st)
            ELSE evalExpressionsFrom(exps, i + 1, Append(res, r.val), env, r.st, stk)

\* the loop of evalExpressions from expression i on; res is its local variable result
evalExpressionsFrom(exps, i, res, env, st, stk) ==
    IF i > Len(exps) THEN Ret(res, st)
    ELSE LET r == Eval(exps[i], env, st, stk)
         IN IF Dead(r) THEN r
            ELSE IF isError(r.val) THEN Ret(<<r.val>>, r.st)
            ELSE evalExpressionsFrom(exps, i + 1, Append(res, r.val), env, r.st, stk)

evalExpressions(exps, env, st, stk) ==
    evalExpressionsFrom(exps, 1, <<>>, env, st, stk)

evalIfExpression(ie, env, st, stk) ==
    LET condition == Eval(ie.Condition, env, st, stk)
    IN IF Dead(condition) THEN condition
       ELSE IF isError(condition.val) THEN condition
       ELSE LET st1 == Saw(condition.st, condition.val)
            IN IF isTruthy(condition.val)
               THEN Eval(ie.Consequence, env, st1, stk)
               ELSE IF ie.Alternative.type # "nil"
               THEN Eval(ie.Alternative, env, st1, stk)
               ELSE Ret(NULL, st1)

\* stk already holds the environment of the CallExpression being evaluated
applyFunction(fn, args, st, stk) ==
    IF IsNil(fn) THEN Die(st, NilDeref)
    ELSE IF fn.kind # FUNCTION_OBJ
    THEN newError("not a function: " \o Type(fn), st)
    ELSE IF Len(stk) > MaxDepth THEN Die(st, StackOverflow)
    ELSE LET x == extendFunctionEnv(fn, args, st)
             st1 == [x.st EXCEPT !.calls = Append(@, CallEntry(fn, args, x, st)),
                                 !.lex = (x.env :> st.defs[fn.addr]) @@ @]
         IN IF x.st.panic # "" THEN Ret(NIL, st1)
            ELSE LET evald == Eval(fn.fn.Body, x.env, st1, stk)
                 IN IF Dead(evald) THEN evald
                    ELSE Ret(unwrapReturnValue(evald.val),
                             Log(evald.st, "exit", Len(stk)))

Eval(node, env, st, stk) ==
    CASE node.type = "BlockStatement" -> evalBlockStatement(node, env, st, stk)
      [] node.type = "ExpressionStatement" ->
            Eval(node.Expression, env, Log(st, "stmt", Len(stk)), stk)
      [] node.type = "ReturnStatement" ->
            LET val == Eval(node.ReturnValue, env, Log(st, "stmt", Len(stk)), stk)
            IN IF Dead(val) \/ isError(val.val) THEN val
               ELSE Ret(ReturnValue(val.val, val.st.next),
                        Log(Alloc(val.st), "return", Len(stk)))
      [] node.type = "LetStatement" ->
            LET val == Eval(node.Value, env, Log(st, "stmt", Len(stk)), stk)
            IN IF Dead(val) \/ isError(val.val) THEN val
               ELSE \* env.Set, then the switch is left and nil returned
                    Ret(NIL, [val.st EXCEPT
                                !.envs = Set(@, env, node.Name.Value, val.val)])
      [] node.type = "IntegerLiteral" -> Ret(Integer(node.Int, st.next), Alloc(st))
      [] node.type = "StringLiteral" -> Ret(String(node.Str, st.next), Alloc(st))
      [] node.type = "Boolean" -> Ret(nativeBoolToBooleanObject(node.Bool), st)
      [] node.type = "PrefixExpression" ->
            LET right == Eval(node.Right, env, st, stk)
            IN IF Dead(right) \/ isError(right.val) THEN right
               ELSE evalPrefixExpression(node.Operator, right.val, right.st)
      [] node.type = "InfixExpression" ->
            LET left == Eval(node.Left, env, st, stk)
            IN IF Dead(left) \/ isError(left.val) THEN left
               ELSE LET right == Eval(node.Right, env, left.st, stk)
                    IN IF Dead(right) \/ isError(right.val) THEN right
                       ELSE evalInfixExpression(node.Operator, left.val,
                                                right.val, right.st)
      [] node.type = "IfExpression" -> evalIfExpression(node, env, st, stk)
      [] node.type = "Identifier" -> evalIdentifier(node, env, st, stk)
      [] node.type = "FunctionLiteral" ->
            LET f == evalFunctionLiteral(node, env, st)
            IN Ret(f.val, [f.st EXCEPT !.defs = @ @@ (f.val.addr :> env)])
      [] node.type = "CallExpression" ->
            LET function == Eval(node.Function, env, st, stk)
            IN IF Dead(function) \/ isError(function.val) THEN function
               ELSE LET args == evalExpressions(node.Arguments, env,
                                                function.st, stk)
                    IN IF Dead(args) THEN args
                       ELSE IF Len(args.val) = 1 /\ isError(args.val[1])
                       THEN Ret(args.val[1], args.st)
                       ELSE applyFunction(function.val, args.val, args.st,
                                          Append(stk, env))
      [] OTHER -> Ret(NIL, st)

---------------------------------------------------------------------------
(* evalProgram, one iteration of its loop per step *)

\* an evalProgram that only stops at a ReturnValue
evalProgramNext_IgnoreError(r, i) ==
    IF r.val.kind = RETURN_VALUE_OBJ
    THEN [result |-> r.val.Value, done |-> TRUE, pc |-> i]
    ELSE [result |-> r.val, done |-> FALSE, pc |-> i + 1]

\* what evalProgram does with the value r of statement i: return or go on
evalProgramNext(r, i) ==
    IF r.val.kind = RETURN_VALUE_OBJ
    THEN [result |-> r.val.Value, done |-> TRUE, pc |-> i]
    ELSE IF r.val.kind = ERROR_OBJ
    THEN [result |-> r.val, done |-> TRUE, pc |-> i]
    ELSE [result |-> r.val, done |-> FALSE, pc |-> i + 1]

EvalState ==
    [envs |-> envs, next |-> nextAddr, panic |-> panic, trace |-> trace,
     lookups |-> lookups, calls |-> calls, operands |-> operands,
     defs |-> defs, lex |-> lex]

\* the environment evalProgram is handed (the REPL's, or a test's fresh one)
GlobalEnv == 1

---------------------------------------------------------------------------
(* The programs explored: every sequence of at most MaxStmts statements    *)
(* of StmtPool, and the end-to-end scenarios of the README.                *)

Id(n) == Identifier(n)
Digit == <<"0", "1", "2", "3", "4", "5", "6", "7", "8", "9">>
RECURSIVE Decimal(_)
Decimal(n) == IF n < 10 THEN Digit[n + 1] ELSE Decimal(n \div 10) \o Digit[(n % 10) + 1]
Num(n) == IntegerLiteral(Decimal(n), Int64(n))
ES(e) == ExpressionStatement(e)
Let(n, e) == LetStatement(Identifier(n), e)
Fn(ps, stmts) == FunctionLiteral(ps, BlockStatement(stmts))
If(c, stmts) == IfExpression(c, BlockStatement(stmts), NilNode)
IfElse(c, stmts, alt) == IfExpression(c, BlockStatement(stmts), BlockStatement(alt))

StmtPool == <<
    \* let x = 1;
    Let("x", Num(1)),
    \* let x = x + 1;
    Let("x", InfixExpression(Id("x"), "+", Num(1))),
    \* let f = fn() { x };
    Let("f", Fn(<<>>, <<ES(Id("x"))>>)),
    \* let f = fn(x, y) { let x = 2; return x; 9 };
    Let("f", Fn(<<Id("x"), Id("y")>>,
                <<Let("x", Num(2)), ReturnStatement(Id("x")), ES(Num(9))>>)),
    \* f();
    ES(CallExpression(Id("f"), <<>>)),
    \* f(5, 6, 7);
    ES(CallExpression(Id("f"), <<Num(5), Num(6), Num(7)>>)),
    \* let g = fn(x) { f() };
    Let("g", Fn(<<Id("x")>>, <<ES(CallExpression(Id("f"), <<>>))>>)),
    \* g(7);
    ES(CallExpression(Id("g"), <<Num(7)>>)),
    \* let y = if (x == 1) { return 10; };
    Let("y", If(InfixExpression(Id("x"), "==", Num(1)),
                <<ReturnStatement(Num(10))>>)),
    \* return if (true) { return x; };
    ReturnStatement(If(Boolean(TRUE), <<ReturnStatement(Id("x"))>>)),
    \* if (x > 1) { let x = 0; } else { return y; }
    ES(IfElse(InfixExpression(Id("x"), ">", Num(1)),
              <<Let("x", Num(0))>>, <<ReturnStatement(Id("y"))>>)),
    \* -if (true) { let y = 1; }
    ES(PrefixExpression("-", If(Boolean(TRUE), <<Let("y", Num(1))>>)))
>>

RECURSIVE SeqsUpTo(_, _)
SeqsUpTo(S, n) ==
    IF n = 0 THEN {<<>>}
    ELSE LET shorter == SeqsUpTo(S, n - 1)
         IN shorter \cup {Append(q, x) : q \in shorter, x \in S}

PoolPrograms ==
    {[i \in 1..Len(q) |-> StmtPool[q[i]]] : q \in SeqsUpTo(1..Len(StmtPool), MaxStmts)}

Scenarios == {
    \* let five = 5; let ten = 10; let add = fn(x, y) { x + y; }; add(five, ten);
    << Let("five", Num(5)), Let("ten", Num(10)),
       Let("add", Fn(<<Id("x"), Id("y")>>,
                     <<ES(InfixExpression(Id("x"), "+", Id("y")))>>)),
       ES(CallExpression(Id("add"), <<Id("five"), Id("ten")>>)) >>,
    \* let counter = fn(x) { if (x > 2) { return true; } else
    \*     { let foobar = 9999; counter(x + 1); } }; counter(0);
    << Let("counter", Fn(<<Id("x")>>,
          <<ES(IfElse(InfixExpression(Id("x"), ">", Num(2)),
                  <<ReturnStatement(Boolean(TRUE))>>,
                  <<Let("foobar", Num(9999)),
                    ES(CallExpression(Id("counter"),
                          <<InfixExpression(Id("x"), "+", Num(1))>>))>>))>>)),
       ES(CallExpression(Id("counter"), <<Num(0)>>)) >>,
    \* let newAdder = fn(x) { fn(y) { x + y }; }; let addTwo = newAdder(2); addTwo(3);
    << Let("newAdder", Fn(<<Id("x")>>,
          <<ES(Fn(<<Id("y")>>, <<ES(InfixExpression(Id("x"), "+", Id("y")))>>))>>)),
       Let("addTwo", CallExpression(Id("newAdder"), <<Num(2)>>)),
       ES(CallExpression(Id("addTwo"), <<Num(3)>>)) >>,
    \* 5 + true;
    << ES(InfixExpression(Num(5), "+", Boolean(TRUE))) >>,
    \* foobar;
    << ES(Id("foobar")) >>,
    \* if (10 > 1) { if (10 > 1) { return 10; } return 1; }
    << ES(If(InfixExpression(Num(10), ">", Num(1)),
             <<ES(If(InfixExpression(Num(10), ">", Num(1)),
                     <<ReturnStatement(Num(10))>>)),
               ReturnStatement(Num(1))>>)) >>,
    \* a + b;
    << ES(InfixExpression(Id("a"), "+", Id("b"))) >>,
    \* g(a);
    << ES(CallExpression(Id("g"), <<Id("a")>>)) >>,
    \* let one = 1; let f = fn(x, y, z) { z; }; f(one, a, b);
    << Let("one", Num(1)),
       Let("f", Fn(<<Id("x"), Id("y"), Id("z")>>, <<ES(Id("z"))>>)),
       ES(CallExpression(Id("f"), <<Id("one"), Id("a"), Id("b")>>)) >>
}

Programs == PoolPrograms \cup Scenarios

---------------------------------------------------------------------------
(* The evaluator's state machine *)

ParserIdle ==
    /\ source = [kind |-> "none", ops |-> <<>>, first |-> 0, semi |-> FALSE]
    /\ tokens = <<>>
    /\ pos = 1
    /\ errors = <<>>
    /\ statements = <<>>
    /\ pstate = "idle"

\* pass 1 of a parse, nothing printed yet
TripIdle ==
    /\ pass = 1
    /\ canon = <<>>

\* a Lexer that has nothing to read, and no call of NextToken yet
LexerIdle ==
    /\ lexer = [input |-> <<>>, position |-> 0, readPosition |-> 1, ch |-> "NUL"]
    /\ emitted = <<>>

\* no line read by the REPL, no builtin called
OtherIdle ==
    /\ session = <<>>
    /\ builtin = [called |-> FALSE, args |-> <<>>, result |-> NIL, panic |-> ""]
    /\ operation = [operator |-> "", left |-> NIL, right |-> NIL, fn |-> "",
                    result |-> NIL, panic |-> ""]
    /\ peeked = [t |-> "", ok |-> FALSE]
    /\ parsed = <<>>

Init ==
    /\ program \in Programs
    /\ pc = 1
    /\ result = NIL
    /\ done = FALSE
    /\ envs = <<NewEnvironment>>
    /\ nextAddr = FirstAddr
    /\ panic = ""
    /\ evaluated = <<>>
    /\ trace = <<>>
    /\ lookups = <<>>
    /\ calls = <<>>
    /\ operands = {}
    /\ defs = [a \in {} |-> 0]
    /\ lex = (GlobalEnv :> 0)
    /\ ParserIdle
    /\ TripIdle
    /\ LexerIdle
    /\ OtherIdle

\* for _, statement := range program.Statements { result = Eval(statement, env) ... }
EvalStatement ==
    /\ ~done
    /\ pc <= Len(program)
    /\ LET r == Eval(program[pc], GlobalEnv, EvalState, <<>>)
           n == evalProgramNext(r, pc)
       IN /\ envs' = r.st.envs
          /\ nextAddr' = r.st.next
          /\ panic' = r.st.panic
          /\ trace' = r.st.trace
          /\ lookups' = r.st.lookups
          /\ calls' = r.st.calls
          /\ operands' = r.st.operands
          /\ defs' = r.st.defs
          /\ lex' = r.st.lex
          /\ evaluated' = Append(evaluated,
                 [index |-> pc, kind |-> IF Dead(r) THEN "panic" ELSE r.val.kind,
                  val |-> r.val])
          /\ IF Dead(r)
             THEN /\ done' = TRUE
                  /\ UNCHANGED <<result, pc>>
             ELSE /\ result' = n.result
                  /\ done' = n.done
                  /\ pc' = n.pc
    /\ UNCHANGED <<program, parserVars, tripVars, lexVars, otherVars>>

\* the loop is over: return result
EvalReturn ==
    /\ ~done
    /\ pc > Len(program)
    /\ done' = TRUE
    /\ UNCHANGED <<program, pc, result, envs, nextAddr, panic, evaluated, trace,
                   lookups, calls, operands, defs, lex,
                   parserVars, tripVars, lexVars, otherVars>>

Next == EvalStatement \/ EvalReturn

Spec == Init /\ [][Next]_vars

---------------------------------------------------------------------------
(* Claims about the evaluator *)

AllEnvs == 1..Len(envs)

\* C1: the value evalProgram returns for a Program is never a ReturnValue
\* wrapper, whatever the statements are.
C1_NoReturnValueEscapesProgram ==
    (done /\ panic = "") => result.kind # RETURN_VALUE_OBJ

\* C2: no environment binding holds a ReturnValue wrapper, and no prefix
\* operator, infix operator or truthiness test is handed one.
C2_ReturnValueNeverObserved ==
    /\ \A e \in AllEnvs : \A n \in DOMAIN envs[e].store :
          envs[e].store[n].kind # RETURN_VALUE_OBJ
    /\ RETURN_VALUE_OBJ \notin operands

\* C3: Eval never returns the host nil: not for a statement of the Program
\* (a LetStatement included), not for the Program itself (an empty one included).
C3_EvalNeverReturnsNil ==
    /\ \A i \in 1..Len(evaluated) : evaluated[i].kind # "nil"
    /\ (done /\ panic = "") => ~IsNil(result)

\* the names a node can bind in the environment it is evaluated in: its
\* LetStatements outside every FunctionLiteral
RECURSIVE TopLets(_)
TopLetsOfAll(nodes) == UNION {TopLets(nodes[i]) : i \in 1..Len(nodes)}
TopLets(node) ==
    CASE node.type = "LetStatement" -> {node.Name.Value} \cup TopLets(node.Value)
      [] node.type = "ReturnStatement" -> TopLets(node.ReturnValue)
      [] node.type = "ExpressionStatement" -> TopLets(node.Expression)
      [] node.type = "BlockStatement" -> TopLetsOfAll(node.Statements)
      [] node.type = "PrefixExpression" -> TopLets(node.Right)
      [] node.type = "InfixExpression" -> TopLets(node.Left) \cup TopLets(node.Right)
      [] node.type = "IfExpression" ->
            TopLets(node.Condition) \cup TopLets(node.Consequence)
                \cup TopLets(node.Alternative)
      [] node.type = "CallExpression" ->
            TopLets(node.Function) \cup TopLetsOfAll(node.Arguments)
      [] OTHER -> {}

Stopping == {RETURN_VALUE_OBJ, ERROR_OBJ}

\* C4: evalProgram evaluates the statements in source order and stops at the
\* first one whose value is a ReturnValue or an Error: the result is the
\* wrapped value or that Error, no later statement is evaluated and the
\* environment holds no binding of a later statement.
C4_ProgramStopsAtFirstReturnOrError ==
    LET k == Len(evaluated)
    IN /\ \A i \in 1..k : evaluated[i].index = i
       /\ \A i \in 1..(k - 1) : evaluated[i].kind \notin Stopping \cup {"panic"}
       /\ DOMAIN envs[GlobalEnv].store \subseteq
             UNION {TopLets(program[i]) : i \in 1..k}
       /\ (done /\ panic = "") =>
             IF k > 0 /\ evaluated[k].kind \in Stopping
             THEN IF evaluated[k].kind = RETURN_VALUE_OBJ
                  THEN SameObject(result, evaluated[k].val.Value)
                  ELSE SameObject(result, evaluated[k].val)
             ELSE /\ k = Len(program)
                  /\ k > 0 => SameObject(result, evaluated[k].val)

\* a Program stopped by a return or an Error in front of a let statement
C4_Witness ==
    LET k == Len(evaluated)
    IN /\ done /\ panic = ""
       /\ k > 0 /\ k < Len(program)
       /\ evaluated[k].kind \in Stopping
       /\ program[k + 1].type = "LetStatement"
       /\ program[k + 1].Name.Value \notin DOMAIN envs[GlobalEnv].store

\* C5: a return executed at any depth of if/else blocks ends the innermost
\* function body (or the Program): after it, no statement of that body is
\* evaluated before the body is left.
C5_ReturnEndsInnermostBody ==
    \A i \in 1..Len(trace) : \A j \in (i + 1)..Len(trace) :
        (trace[i].ev = "return" /\ trace[j].ev = "stmt"
            /\ trace[j].depth = trace[i].depth)
        => \E m \in (i + 1)..(j - 1) :
              trace[m].ev = "exit" /\ trace[m].depth = trace[i].depth

\* C6: a call runs the body in a fresh environment whose outer is the
\* environment the function literal was evaluated in, and an identifier
\* bound only in a caller's environment is not found.
C6_LexicalScoping ==
    /\ \A i \in 1..Len(calls) :
          ~calls[i].aborted =>
             /\ envs[calls[i].newEnv].outer = calls[i].defEnv
             /\ \A j \in 1..(i - 1) : calls[j].newEnv < calls[i].newEnv
    /\ \A i \in 1..Len(lookups) : lookups[i].callerOnly => ~lookups[i].ok

\* a body looked up a name that only its caller binds, and the Program ended
\* with identifier not found
C6_Witness ==
    /\ \E i \in 1..Len(lookups) : lookups[i].callerOnly /\ ~lookups[i].ok
    /\ done /\ result.kind = ERROR_OBJ
    /\ result.str = "identifier not found: x"

\* C7: a Function holds the environment its literal was evaluated in, not a
\* copy: every lookup sees the current binding of the nearest environment of
\* the lexical chain, also one made after the literal was evaluated.
C7_ClosureSharesEnvironment ==
    /\ \A i \in 1..Len(calls) : calls[i].fnEnv = calls[i].defEnv
    /\ \A i \in 1..Len(lookups) :
          /\ lookups[i].ok = lookups[i].lexOk
          /\ lookups[i].ok => lookups[i].addr = lookups[i].lexAddr

\* a body found, in the environment of its literal, an object allocated
\* after the Function object itself
C7_Witness ==
    \E i \in 1..Len(lookups) : \E j \in 1..Len(calls) :
        /\ calls[j].newEnv = lookups[i].env
        /\ lookups[i].ok
        /\ lookups[i].lexEnv = calls[j].defEnv
        /\ lookups[i].addr > calls[j].fnAddr

\* the environments from e outwards
RECURSIVE Chain(_, _)
Chain(es, e) == IF e = 0 THEN <<>> ELSE <<e>> \o Chain(es, es[e].outer)

BoundNames == UNION {DOMAIN envs[e].store : e \in AllEnvs} \cup {"unbound"}

\* Get returns the binding of the nearest environment that has one
GetNearest ==
    \A e \in AllEnvs : \A n \in BoundNames :
        LET chain == Chain(envs, e)
            hits == {i \in 1..Len(chain) : n \in DOMAIN envs[chain[i]].store}
            g == Get(envs, e, n)
        IN IF hits = {} THEN ~g.ok
           ELSE LET first == CHOOSE i \in hits : \A h \in hits : i <= h
                IN g.ok /\ SameObject(g.obj, envs[chain[first]].store[n])

\* one statement of the Program changes, of the environments that exist,
\* only the one it is evaluated in, and there only the names it lets
SetFrame ==
    \A e \in AllEnvs :
        /\ envs'[e].outer = envs[e].outer
        /\ \A n \in DOMAIN envs[e].store : n \in DOMAIN envs'[e].store
        /\ \A n \in DOMAIN envs'[e].store :
              (n \notin DOMAIN envs[e].store
                  \/ ~SameObject(envs'[e].store[n], envs[e].store[n]))
              => (e = GlobalEnv /\ pc <= Len(program) /\ n \in TopLets(program[pc]))

\* C8: Set changes only the local map of its environment; the bindings of
\* every outer environment stay as they are (a let in a function body shadows
\* and never overwrites); Get returns the local binding, else the nearest outer one.
C8_SetIsLocalGetIsNearest == [][SetFrame]_vars /\ []GetNearest

\* a function body bound a name that the global environment binds too, to
\* another object, and both bindings exist
C8_Witness ==
    \E j \in 1..Len(calls) :
        /\ ~calls[j].aborted
        /\ \E n \in DOMAIN envs[calls[j].newEnv].store :
              /\ n \in DOMAIN envs[GlobalEnv].store
              /\ ~SameObject(envs[calls[j].newEnv].store[n], envs[GlobalEnv].store[n])

\* C9: a call with a number of arguments other than the number of parameters
\* never aborts the evaluation: extra arguments are ignored and the
\* parameters without argument stay unbound.
C9_ArityMismatchNeverAborts ==
    \A i \in 1..Len(calls) :
        calls[i].nargs # calls[i].nparams => ~calls[i].aborted

---------------------------------------------------------------------------
(* Tokens (package token).  A Literal is the sequence of the characters    *)
(* of the source the token was cut from.                                   *)

EOF == "EOF"
IDENT == "IDENT"
INT == "INT"
ASSIGN == "="
PLUS == "+"
MINUS == "-"
BANG == "!"
ASTERISK == "*"
SLASH == "/"
LT == "<"
GT == ">"
EQ == "=="
NOT_EQ == "!="
COMMA == ","
SEMICOLON == ";"
LPAREN == "("
RPAREN == ")"
LBRACE == "{"
RBRACE == "}"
FUNCTION == "FUNCTION"
RETURN == "RETURN"
\* token.LET, token.TRUE, token.FALSE, token.IF and token.ELSE
T_LET == "LET"
T_TRUE == "TRUE"
T_FALSE == "FALSE"
T_IF == "IF"
T_ELSE == "ELSE"

Token(type, literal) == [Type |-> type, Literal |-> literal]

\* the Go string made of the characters of a Literal
RECURSIVE Str(_)
Str(chars) == IF chars = <<>> THEN "" ELSE Head(chars) \o Str(Tail(chars))

---------------------------------------------------------------------------
(* The lexer (package lexer).  A byte is a string of one character; the    *)
(* byte 0 is NUL.  The input is a sequence of bytes, indexed from 0 in the *)
(* code and from 1 here.                                                   *)

ILLEGAL == "ILLEGAL"
T_STRING == "STRING"
COLON == ":"
LBRACKET == "["
RBRACKET == "]"

NUL == "NUL"

Lower == {"a", "b", "c", "d", "e", "f", "g", "h", "i", "j", "k", "l", "m", "n", "o",
          "p", "q", "r", "s", "t", "u", "v", "w", "x", "y", "z"}
Upper == {"A", "B", "C", "D", "E", "F", "G", "H", "I", "J", "K", "L", "M", "N", "O",
          "P", "Q", "R", "S", "T", "U", "V", "W", "X", "Y", "Z"}

isLetter(ch) == ch \in Lower \/ ch \in Upper \/ ch = "_"

isDigit(ch) == \E i \in 1..Len(Digit) : Digit[i] = ch

\* the keywords table and token.LookupIdent
keywords ==
    ("fn" :> FUNCTION) @@ ("let" :> T_LET) @@ ("true" :> T_TRUE) @@ ("false" :> T_FALSE)
    @@ ("if" :> T_IF) @@ ("else" :> T_ELSE) @@ ("return" :> RETURN)

LookupIdent(ident) ==
    IF Str(ident) \in DOMAIN keywords THEN keywords[Str(ident)] ELSE IDENT

newToken(tokenType, ch) == Token(tokenType, <<ch>>)

readChar(l) ==
    [l EXCEPT !.ch = IF l.readPosition >= Len(l.input) THEN NUL
                     ELSE l.input[l.readPosition + 1],
              !.position = l.readPosition,
              !.readPosition = l.readPosition + 1]

peekChar(l) ==
    IF l.readPosition >= Len(l.input) THEN NUL ELSE l.input[l.readPosition + 1]

\* lexer.New
NewLexer(input) ==
    readChar([input |-> input, position |-> 0, readPosition |-> 0, ch |-> NUL])

\* l.input[from:to]
Slice(input, from, to) == SubSeq(input, from + 1, to)

RECURSIVE skipWhitespace(_)
skipWhitespace(l) ==
    IF l.ch \in {" ", "\t", "\n", "\r"} THEN skipWhitespace(readChar(l)) ELSE l

RECURSIVE readIdentifierLoop(_)
readIdentifierLoop(l) == IF isLetter(l.ch) THEN readIdentifierLoop(readChar(l)) ELSE l

\* the functions that read a run of bytes return [lit, l]: the literal and
\* the lexer they leave
readIdentifier(l) ==
    LET l2 == readIdentifierLoop(l)
    IN [lit |-> Slice(l.input, l.position, l2.position), l |-> l2]

RECURSIVE readNumberLoop(_)
readNumberLoop(l) == IF isDigit(l.ch) THEN readNumberLoop(readChar(l)) ELSE l

readNumber(l) ==
    LET l2 == readNumberLoop(l)
    IN [lit |-> Slice(l.input, l.position, l2.position), l |-> l2]

RECURSIVE readStringLoop(_)
readStringLoop(l) ==
    LET l2 == readChar(l)
    IN IF l2.ch = "\"" \/ l2.ch = NUL THEN l2 ELSE readStringLoop(l2)

readString(l) ==
    LET l2 == readStringLoop(l)
    IN [lit |-> Slice(l.input, l.position + 1, l2.position), l |-> l2]

\* the bytes NextToken turns into a token of their own kind
SingleByteTokens == {";", ":", "(", ")", ",", "+", "{", "}", "-", "/", "*", "<", ">", "[", "]"}

\* NextToken with the end of input given the byte as its literal, as the
\* other one-byte tokens have it
NextToken_EOFByte(l0) ==
    LET l == skipWhitespace(l0)
    IN CASE l.ch \in {"=", "!"} ->
              IF peekChar(l) = "="
              THEN LET l2 == readChar(l)
                   IN [tok |-> Token(IF l.ch = "=" THEN EQ ELSE NOT_EQ, <<l.ch, l2.ch>>),
                       l |-> readChar(l2)]
              ELSE [tok |-> newToken(IF l.ch = "=" THEN ASSIGN ELSE BANG, l.ch),
                    l |-> readChar(l)]
         [] l.ch \in SingleByteTokens ->
              [tok |-> newToken(l.ch, l.ch), l |-> readChar(l)]
         [] l.ch = "\"" ->
              LET r == readString(l)
              IN [tok |-> Token(T_STRING, r.lit), l |-> readChar(r.l)]
         [] l.ch = NUL ->
              [tok |-> newToken(EOF, l.ch), l |-> readChar(l)]
         [] OTHER ->
              IF isLetter(l.ch)
              THEN LET r == readIdentifier(l)
                   IN [tok |-> Token(LookupIdent(r.lit), r.lit), l |-> r.l]
              ELSE IF isDigit(l.ch)
              THEN LET r == readNumber(l)
                   IN [tok |-> Token(INT, r.lit), l |-> r.l]
              ELSE [tok |-> newToken(ILLEGAL, l.ch), l |-> readChar(l)]

\* NextToken returns [tok, l]: the token and the lexer it leaves
NextToken(l0) ==
    LET l == skipWhitespace(l0)
    IN CASE l.ch \in {"=", "!"} ->
              IF peekChar(l) = "="
              THEN LET l2 == readChar(l)
                   IN [tok |-> Token(IF l.ch = "=" THEN EQ ELSE NOT_EQ, <<l.ch, l2.ch>>),
                       l |-> readChar(l2)]
              ELSE [tok |-> newToken(IF l.ch = "=" THEN ASSIGN ELSE BANG, l.ch),
                    l |-> readChar(l)]
         [] l.ch \in SingleByteTokens ->
              [tok |-> newToken(l.ch, l.ch), l |-> readChar(l)]
         [] l.ch = "\"" ->
              LET r == readString(l)
              IN [tok |-> Token(T_STRING, r.lit), l |-> readChar(r.l)]
         [] l.ch = NUL ->
              [tok |-> Token(EOF, <<>>), l |-> readChar(l)]
         [] OTHER ->
              IF isLetter(l.ch)
              THEN LET r == readIdentifier(l)
                   IN [tok |-> Token(LookupIdent(r.lit), r.lit), l |-> r.l]
              ELSE IF isDigit(l.ch)
              THEN LET r == readNumber(l)
                   IN [tok |-> Token(INT, r.lit), l |-> r.l]
              ELSE [tok |-> newToken(ILLEGAL, l.ch), l |-> readChar(l)]

\* every byte of the input has been read
Exhausted(l) == l.position >= Len(l.input)

RECURSIVE CallsOfNextToken(_, _)
\* n calls of NextToken one after the other, fewer if the input is used up
\* before: [toks, l], the tokens returned and the lexer left.  The calls
\* are made in two halves to keep the nesting of the definition low.
CallsOfNextToken(l, n) ==
    IF n = 0 \/ Exhausted(l) THEN [toks |-> <<>>, l |-> l]
    ELSE IF n = 1
    THEN LET r == NextToken(l) IN [toks |-> <<r.tok>>, l |-> r.l]
    ELSE LET a == CallsOfNextToken(l, n \div 2)
             b == CallsOfNextToken(a.l, n - n \div 2)
         IN [toks |-> a.toks \o b.toks, l |-> b.l]

\* the tokens NextToken returns, call after call, until the input is used
\* up; from then on every call returns EOF.  A call consumes a byte at
\* least, so there are no more calls than bytes left.
TokensFrom(l) == CallsOfNextToken(l, Len(l.input) - l.position).toks

---------------------------------------------------------------------------
(* The parser (package parser).  The parser state ps is the record of      *)
(* toks (what the lexer returns, call after call, before its endless EOF), *)
(* pos (the index of curToken; peekToken is the next one) and errors.      *)
(* A parsing function returns [node, ps].                                  *)

LOWEST == 1
EQUALS == 2
LESSGREATER == 3
SUM == 4
PRODUCT == 5
PREFIX == 6
CALL == 7

\* a precedence table in which * and / sit on the level of + and -
precedences_ProductAsSum(t) ==
    CASE t \in {EQ, NOT_EQ} -> EQUALS
      [] t \in {LT, GT} -> LESSGREATER
      [] t \in {PLUS, MINUS, SLASH, ASTERISK} -> SUM
      [] t = LPAREN -> CALL
      [] OTHER -> 0

\* the map precedences; 0 stands for "no entry"
precedences(t) ==
    CASE t \in {EQ, NOT_EQ} -> EQUALS
      [] t \in {LT, GT} -> LESSGREATER
      [] t \in {PLUS, MINUS} -> SUM
      [] t \in {SLASH, ASTERISK} -> PRODUCT
      [] t = LPAREN -> CALL
      [] OTHER -> 0

\* the token types with a registered prefixParseFn, and with an infixParseFn
PrefixParseFns == {IDENT, INT, BANG, MINUS, T_TRUE, T_FALSE, LPAREN, T_IF, FUNCTION}
InfixParseFns == {PLUS, MINUS, SLASH, ASTERISK, EQ, NOT_EQ, LT, GT, LPAREN}

\* what Lexer.NextToken returns once the input is used up
EOFToken == Token(EOF, <<>>)

TokenAt(ps, i) == IF i <= Len(ps.toks) THEN ps.toks[i] ELSE EOFToken
curToken(ps) == TokenAt(ps, ps.pos)
peekToken(ps) == TokenAt(ps, ps.pos + 1)

\* log is the history of the calls of the prefix and infix parsing functions
New(toks) == [toks |-> toks, pos |-> 1, errors |-> <<>>, log |-> <<>>]

nextToken(ps) == [ps EXCEPT !.pos = @ + 1]

peekTokenIs(ps, t) == peekToken(ps).Type = t
curTokenIs(ps, t) == curToken(ps).Type = t

\* an expectPeek that steps over the token it did not expect
expectPeek_StepOver(ps, t) ==
    IF peekTokenIs(ps, t)
    THEN [ok |-> TRUE, ps |-> nextToken(ps)]
    ELSE [ok |-> FALSE,
          ps |-> nextToken([ps EXCEPT !.errors =
                               Append(@, "expected next token to be " \o t \o ", got "
                                         \o peekToken(ps).Type \o " instead")])]

peekError(ps, t) ==
    [ps EXCEPT !.errors = Append(@, "expected next token to be " \o t \o ", got "
                                    \o peekToken(ps).Type \o " instead")]

noPrefixParseFnError(ps, t) ==
    [ps EXCEPT !.errors = Append(@, "no prefix parse function for " \o t \o " found")]

expectPeek(ps, t) ==
    IF peekTokenIs(ps, t)
    THEN [ok |-> TRUE, ps |-> nextToken(ps)]
    ELSE [ok |-> FALSE, ps |-> peekError(ps, t)]

peekPrecedence(ps) ==
    IF precedences(peekToken(ps).Type) # 0
    THEN precedences(peekToken(ps).Type) ELSE LOWEST

curPrecedence(ps) ==
    IF precedences(curToken(ps).Type) # 0
    THEN precedences(curToken(ps).Type) ELSE LOWEST

Parsed(node, ps) == [node |-> node, ps |-> ps]

\* a nil *ast.LetStatement handed on as an ast.Statement: an interface value
\* that holds a nil pointer and is not equal to nil
NilLetStatement == [type |-> "nil", of |-> "*ast.LetStatement"]

---------------------------------------------------------------------------
(* strconv.ParseInt(literal, 0, 64) on a run of decimal digits: with base  *)
(* 0 a leading 0 announces an octal number.                                *)

DigitValue(c) == CHOOSE d \in 0..9 : Digit[d + 1] = c

RECURSIVE DropZeros(_)
DropZeros(ds) == IF ds # <<>> /\ Head(ds) = "0" THEN DropZeros(Tail(ds)) ELSE ds

RECURSIVE Before(_, _)
\* ds < es for two digit runs of the same length
Before(ds, es) ==
    IF ds = <<>> THEN FALSE
    ELSE IF Head(ds) # Head(es) THEN DigitValue(Head(ds)) < DigitValue(Head(es))
    ELSE Before(Tail(ds), Tail(es))

\* 1<<63 - 1 in decimal, and the number of octal digits it has
MaxInt64Digits == <<"9","2","2","3","3","7","2","0","3","6","8","5","4","7","7","5","8","0","7">>
MaxInt64OctalDigits == 21

RECURSIVE ValueOf(_, _, _)
ValueOf(ds, base, acc) ==
    IF ds = <<>> THEN acc ELSE ValueOf(Tail(ds), base, acc * base + DigitValue(Head(ds)))

RECURSIVE Int64Of(_, _)
\* the int64 that the digits ds denote in a base, taken nine digits at a
\* time (nine digits fit the integers of the model; 1 and nine 0s is base^9)
Int64Of(ds, base) ==
    IF Len(ds) <= 9 THEN Int64(ValueOf(ds, base, 0))
    ELSE Add64(Mul64(Int64Of(SubSeq(ds, 1, Len(ds) - 9), base),
                     Int64(ValueOf(<<"1", "0", "0", "0", "0", "0", "0", "0", "0", "0">>,
                                   base, 0))),
               Int64(ValueOf(SubSeq(ds, Len(ds) - 8, Len(ds)), base, 0)))

ParseInt(literal) ==
    IF Head(literal) = "0"
    THEN LET ds == DropZeros(Tail(literal))
         IN IF \E i \in 2..Len(literal) : literal[i] \in {"8", "9"}
            THEN [ok |-> FALSE, value |-> Int64(0)]
            ELSE IF Len(ds) > MaxInt64OctalDigits THEN [ok |-> FALSE, value |-> Int64(0)]
            ELSE [ok |-> TRUE, value |-> Int64Of(ds, 8)]
    ELSE IF \/ Len(literal) > Len(MaxInt64Digits)
            \/ /\ Len(literal) = Len(MaxInt64Digits)
               /\ Before(MaxInt64Digits, literal)
         THEN [ok |-> FALSE, value |-> Int64(0)]
         ELSE [ok |-> TRUE, value |-> Int64Of(literal, 10)]

---------------------------------------------------------------------------
(* The parsing functions.  A nil ast.Expression is NilNode; a nil slice is *)
(* the empty sequence.                                                     *)

parseIdentifier(ps) == Parsed(Identifier(Str(curToken(ps).Literal)), ps)

parseIntegerLiteral(ps) ==
    LET literal == curToken(ps).Literal
        r == ParseInt(literal)
    IN IF ~r.ok
       THEN Parsed(NilNode,
                   [ps EXCEPT !.errors = Append(@, "could not parse \"" \o Str(literal)
                                                   \o "\" as integer")])
       ELSE Parsed(IntegerLiteral(Str(literal), r.value), ps)

parseBoolean(ps) == Parsed(Boolean(curTokenIs(ps, T_TRUE)), ps)

RECURSIVE parseExpression(_, _)
RECURSIVE parseExpressionLoop(_, _, _)
RECURSIVE parsePrefix(_)
RECURSIVE parseInfix(_, _)
RECURSIVE parseStatement(_)
RECURSIVE parseBlockStatementLoop(_, _)
RECURSIVE parseCallArgumentsLoop(_, _)

parseInfixExpression(left, ps) ==
    LET precedence == curPrecedence(ps)
        r == parseExpression(nextToken(ps), precedence)
    IN Parsed(InfixExpression(left, Str(curToken(ps).Literal), r.node), r.ps)

parsePrefixExpression(ps) ==
    LET r == parseExpression(nextToken(ps), PREFIX)
    IN Parsed(PrefixExpression(Str(curToken(ps).Literal), r.node), r.ps)

parseGroupedExpression(ps) ==
    LET r == parseExpression(nextToken(ps), LOWEST)
        e == expectPeek(r.ps, RPAREN)
    IN IF ~e.ok THEN Parsed(NilNode, e.ps) ELSE Parsed(r.node, e.ps)

\* ps sits on the opening brace
parseBlockStatement(ps) == parseBlockStatementLoop(<<>>, nextToken(ps))

parseBlockStatementLoop(stmts, ps) ==
    IF ~curTokenIs(ps, RBRACE) /\ ~curTokenIs(ps, EOF)
    THEN LET r == parseStatement(ps)
         IN parseBlockStatementLoop(IF r.node # NilNode THEN Append(stmts, r.node)
                                                        ELSE stmts,
                                    nextToken(r.ps))
    ELSE Parsed(BlockStatement(stmts), ps)

parseIfExpression(ps) ==
    LET e1 == expectPeek(ps, LPAREN)
    IN IF ~e1.ok THEN Parsed(NilNode, e1.ps)
       ELSE
       LET c == parseExpression(nextToken(e1.ps), LOWEST)
           e2 == expectPeek(c.ps, RPAREN)
       IN IF ~e2.ok THEN Parsed(NilNode, e2.ps)
          ELSE
          LET e3 == expectPeek(e2.ps, LBRACE)
          IN IF ~e3.ok THEN Parsed(NilNode, e3.ps)
             ELSE
             LET cons == parseBlockStatement(e3.ps)
             IN IF peekTokenIs(cons.ps, T_ELSE)
                THEN LET e4 == expectPeek(nextToken(cons.ps), LBRACE)
                     IN IF ~e4.ok THEN Parsed(NilNode, e4.ps)
                        ELSE LET alt == parseBlockStatement(e4.ps)
                             IN Parsed(IfExpression(c.node, cons.node, alt.node), alt.ps)
                ELSE Parsed(IfExpression(c.node, cons.node, NilNode), cons.ps)

RECURSIVE parseFunctionParametersLoop(_, _)
parseFunctionParametersLoop(identifiers, ps) ==
    IF peekTokenIs(ps, COMMA)
    THEN LET ps2 == nextToken(nextToken(ps))
         IN parseFunctionParametersLoop(
                Append(identifiers, Identifier(Str(curToken(ps2).Literal))), ps2)
    ELSE LET e == expectPeek(ps, RPAREN)
         IN IF ~e.ok THEN Parsed(<<>>, e.ps) ELSE Parsed(identifiers, e.ps)

parseFunctionParameters(ps) ==
    IF peekTokenIs(ps, RPAREN)
    THEN Parsed(<<>>, nextToken(ps))
    ELSE LET ps1 == nextToken(ps)
         IN parseFunctionParametersLoop(<<Identifier(Str(curToken(ps1).Literal))>>, ps1)

parseFunctionLiteral(ps) ==
    LET e1 == expectPeek(ps, LPAREN)
    IN IF ~e1.ok THEN Parsed(NilNode, e1.ps)
       ELSE
       LET params == parseFunctionParameters(e1.ps)
           e2 == expectPeek(params.ps, LBRACE)
       IN IF ~e2.ok THEN Parsed(NilNode, e2.ps)
          ELSE LET body == parseBlockStatement(e2.ps)
               IN Parsed(FunctionLiteral(params.node, body.node), body.ps)

parseCallArgumentsLoop(args, ps) ==
    IF peekTokenIs(ps, COMMA)
    THEN LET r == parseExpression(nextToken(nextToken(ps)), LOWEST)
         IN parseCallArgumentsLoop(Append(args, r.node), r.ps)
    ELSE LET e == expectPeek(ps, RPAREN)
         IN IF ~e.ok THEN Parsed(<<>>, e.ps) ELSE Parsed(args, e.ps)

parseCallArguments(ps) ==
    IF peekTokenIs(ps, RPAREN)
    THEN Parsed(<<>>, nextToken(ps))
    ELSE LET r == parseExpression(nextToken(ps), LOWEST)
         IN parseCallArgumentsLoop(<<r.node>>, r.ps)

parseCallExpression(function, ps) ==
    LET args == parseCallArguments(ps)
    IN Parsed(CallExpression(function, args.node), args.ps)

\* the outcome r of a parsing function called on the parser ps, with the call
\* written into the history: where it was entered, where it returned, the
\* node it returned and how many errors it recorded
Noted(fn, ps, r) ==
    [r EXCEPT !.ps.log = Append(@, [fn |-> fn, from |-> ps.pos, to |-> r.ps.pos,
                                    node |-> r.node,
                                    errors |-> Len(r.ps.errors) - Len(ps.errors)])]

\* prefixParseFns[p.curToken.Type]()
parsePrefix(ps) ==
    Noted("prefix", ps,
          CASE curToken(ps).Type = IDENT -> parseIdentifier(ps)
            [] curToken(ps).Type = INT -> parseIntegerLiteral(ps)
            [] curToken(ps).Type \in {BANG, MINUS} -> parsePrefixExpression(ps)
            [] curToken(ps).Type \in {T_TRUE, T_FALSE} -> parseBoolean(ps)
            [] curToken(ps).Type = LPAREN -> parseGroupedExpression(ps)
            [] curToken(ps).Type = T_IF -> parseIfExpression(ps)
            [] curToken(ps).Type = FUNCTION -> parseFunctionLiteral(ps))

\* infixParseFns[p.curToken.Type](left)
parseInfix(left, ps) ==
    Noted("infix", ps,
          IF curToken(ps).Type = LPAREN
          THEN parseCallExpression(left, ps)
          ELSE parseInfixExpression(left, ps))

parseExpression(ps, precedence) ==
    IF curToken(ps).Type \notin PrefixParseFns
    THEN Parsed(NilNode, noPrefixParseFnError(ps, curToken(ps).Type))
    ELSE LET l == parsePrefix(ps)
         IN parseExpressionLoop(l.node, l.ps, precedence)

\* the loop of parseExpression
parseExpressionLoop(leftExp, ps, precedence) ==
    IF ~peekTokenIs(ps, SEMICOLON) /\ precedence < peekPrecedence(ps)
    THEN IF peekToken(ps).Type \notin InfixParseFns
         THEN Parsed(leftExp, ps)
         ELSE LET r == parseInfix(leftExp, nextToken(ps))
              IN parseExpressionLoop(r.node, r.ps, precedence)
    ELSE Parsed(leftExp, ps)

RECURSIVE SkipSemicolons(_)
SkipSemicolons(ps) ==
    IF peekTokenIs(ps, SEMICOLON) THEN SkipSemicolons(nextToken(ps)) ELSE ps

parseLetStatement(ps) ==
    LET e1 == expectPeek(ps, IDENT)
    IN IF ~e1.ok THEN Parsed(NilLetStatement, e1.ps)
       ELSE
       LET name == Identifier(Str(curToken(e1.ps).Literal))
           e2 == expectPeek(e1.ps, ASSIGN)
       IN IF ~e2.ok THEN Parsed(NilLetStatement, e2.ps)
          ELSE LET v == parseExpression(nextToken(e2.ps), LOWEST)
               IN Parsed(LetStatement(name, v.node), SkipSemicolons(v.ps))

parseReturnStatement(ps) ==
    LET v == parseExpression(nextToken(ps), LOWEST)
    IN Parsed(ReturnStatement(v.node),
              IF peekTokenIs(v.ps, SEMICOLON) THEN nextToken(v.ps) ELSE v.ps)

parseExpressionStatement(ps) ==
    LET v == parseExpression(ps, LOWEST)
    IN Parsed(ExpressionStatement(v.node),
              IF peekTokenIs(v.ps, SEMICOLON) THEN nextToken(v.ps) ELSE v.ps)

parseStatement(ps) ==
    CASE curToken(ps).Type = T_LET -> parseLetStatement(ps)
      [] curToken(ps).Type = RETURN -> parseReturnStatement(ps)
      [] OTHER -> parseExpressionStatement(ps)

\* what the loop of ParseProgram does with the outcome r of parseStatement:
\* if stmt != nil { append }, then p.nextToken()
AppendAndAdvance(r, stmts) ==
    [statements |-> IF r.node # NilNode THEN Append(stmts, r.node) ELSE stmts,
     ps |-> nextToken(r.ps)]

\* a turn of the loop that leaves the parser where parseStatement left it
ParseProgramStep_NoAdvance(ps, stmts) ==
    LET r == parseStatement(ps)
    IN [AppendAndAdvance(r, stmts) EXCEPT !.ps = r.ps]

\* one turn of the loop of ParseProgram: [statements, ps]
ParseProgramStep(ps, stmts) == AppendAndAdvance(parseStatement(ps), stmts)

RECURSIVE ParseProgramLoop(_)
\* the loop of ParseProgram, from the Program and the parser r holds
ParseProgramLoop(r) ==
    IF curTokenIs(r.ps, EOF) THEN r
    ELSE ParseProgramLoop(ParseProgramStep(r.ps, r.statements))

\* parser.New(l) and ParseProgram() over the tokens l hands out
ParseProgram(toks) == ParseProgramLoop([statements |-> <<>>, ps |-> New(toks)])

---------------------------------------------------------------------------
(* The inputs of the parser.  An input of kind "expr" is one expression    *)
(* statement: operands taken in rotation from Operands, starting at        *)
(* first, joined by the infix operators ops, with or without a closing     *)
(* semicolon.  An input of kind "text" is one of Texts.                    *)

MaxOps == 3

Ch(c) == Token(c, <<c>>)
Name(c) == Token(IDENT, <<c>>)
IntTok(c) == Token(INT, <<c>>)

InfixOperators == {"+", "-", "*", "/", "<", ">", "==", "!="}

OperatorToken(op) ==
    CASE op = "==" -> Token(EQ, <<"=", "=">>)
      [] op = "!=" -> Token(NOT_EQ, <<"!", "=">>)
      [] OTHER -> Ch(op)

\* each operand with the tokens of its text and the tree it stands for
Operands == <<
    \* a
    [toks |-> <<Name("a")>>, node |-> Id("a")],
    \* -a
    [toks |-> <<Ch("-"), Name("a")>>, node |-> PrefixExpression("-", Id("a"))],
    \* !true
    [toks |-> <<Ch("!"), Token(T_TRUE, <<"t", "r", "u", "e">>)>>,
     node |-> PrefixExpression("!", Boolean(TRUE))],
    \* f(a, b + 1)
    [toks |-> <<Name("f"), Ch("("), Name("a"), Ch(","), Name("b"), Ch("+"), IntTok("1"),
                Ch(")")>>,
     node |-> CallExpression(Id("f"), <<Id("a"), InfixExpression(Id("b"), "+", Num(1))>>)],
    \* (a + b)
    [toks |-> <<Ch("("), Name("a"), Ch("+"), Name("b"), Ch(")")>>,
     node |-> InfixExpression(Id("a"), "+", Id("b"))],
    \* -f(b)
    [toks |-> <<Ch("-"), Name("f"), Ch("("), Name("b"), Ch(")")>>,
     node |-> PrefixExpression("-", CallExpression(Id("f"), <<Id("b")>>))]
>>

\* the i-th operand (from 0) of an input that starts at first
OperandAt(first, i) == Operands[((first - 1 + i) % Len(Operands)) + 1]

RECURSIVE ExprTokens(_, _, _)
\* the tokens after operand i: operator i + 1, operand i + 1, ...
ExprTokens(ops, first, i) ==
    IF i >= Len(ops) THEN <<>>
    ELSE <<OperatorToken(ops[i + 1])>> \o OperandAt(first, i + 1).toks
         \o ExprTokens(ops, first, i + 1)

Texts == <<
    \* let x = 5;
    <<Token(T_LET, <<"l", "e", "t">>), Name("x"), Ch("="), IntTok("5"), Ch(";")>>,
    \* let = 5;;
    <<Token(T_LET, <<"l", "e", "t">>), Ch("="), IntTok("5"), Ch(";"), Ch(";")>>,
    \* return 010; a
    <<Token(RETURN, <<"r", "e", "t", "u", "r", "n">>), Token(INT, <<"0", "1", "0">>), Ch(";"), Name("a")>>,
    \* if (x < y) { x } else { return y; }
    <<Token(T_IF, <<"i", "f">>), Ch("("), Name("x"), Ch("<"), Name("y"), Ch(")"),
      Ch("{"), Name("x"), Ch("}"), Token(T_ELSE, <<"e", "l", "s", "e">>), Ch("{"),
      Token(RETURN, <<"r", "e", "t", "u", "r", "n">>), Name("y"), Ch(";"), Ch("}")>>,
    \* if (x) { x }; fn(x, y) { x + y; }(1, 2); fn() { }
    <<Token(T_IF, <<"i", "f">>), Ch("("), Name("x"), Ch(")"), Ch("{"), Name("x"), Ch("}"),
      Ch(";"),
      Token(FUNCTION, <<"f", "n">>), Ch("("), Name("x"), Ch(","), Name("y"), Ch(")"),
      Ch("{"), Name("x"), Ch("+"), Name("y"), Ch(";"), Ch("}"),
      Ch("("), IntTok("1"), Ch(","), IntTok("2"), Ch(")"), Ch(";"),
      Token(FUNCTION, <<"f", "n">>), Ch("("), Ch(")"), Ch("{"), Ch("}")>>,
    \* (a + ; 08 * } fn x
    <<Ch("("), Name("a"), Ch("+"), Ch(";"), Token(INT, <<"0", "8">>), Ch("*"), Ch("}"),
      Token(FUNCTION, <<"f", "n">>), Name("x")>>
>>

\* the sources of kind "src": what a user may type
Sources == <<
    \* let x = 5; x
    <<"l", "e", "t", " ", "x", " ", "=", " ", "5", ";", " ", "x">>,
    \* if (x < y) { x } else { y }
    <<"i", "f", " ", "(", "x", " ", "<", " ", "y", ")", " ", "{", " ", "x", " ",
      "}", " ", "e", "l", "s", "e", " ", "{", " ", "y", " ", "}">>,
    \* fn(x, y) { x + y; }
    <<"f", "n", "(", "x", ",", " ", "y", ")", " ", "{", " ", "x", " ", "+", " ",
      "y", ";", " ", "}">>,
    \* -a * b
    <<"-", "a", " ", "*", " ", "b">>,
    \* !(true == true)
    <<"!", "(", "t", "r", "u", "e", " ", "=", "=", " ", "t", "r", "u", "e", ")">>,
    \* 1; 2
    <<"1", ";", " ", "2">>,
    \* let f = fn(x) { return x; }; f(1)
    <<"l", "e", "t", " ", "f", " ", "=", " ", "f", "n", "(", "x", ")", " ", "{",
      " ", "r", "e", "t", "u", "r", "n", " ", "x", ";", " ", "}", ";", " ", "f",
      "(", "1", ")">>,
    \* fn(@) { }
    <<"f", "n", "(", "@", ")", " ", "{", " ", "}">>,
    \* @
    <<"@">>,
    \* a + @
    <<"a", " ", "+", " ", "@">>,
    \* f(a, @)
    <<"f", "(", "a", ",", " ", "@", ")">>,
    \* fn(1) { }
    <<"f", "n", "(", "1", ")", " ", "{", " ", "}">>,
    \* fn(x, if) { x }
    <<"f", "n", "(", "x", ",", " ", "i", "f", ")", " ", "{", " ", "x", " ", "}">>,
    \* fn(+) { }
    <<"f", "n", "(", "+", ")", " ", "{", " ", "}">>,
    \* fn(x @ y) { x }
    <<"f", "n", "(", "x", " ", "@", " ", "y", ")", " ", "{", " ", "x", " ", "}">>,
    \* let = 5; a
    <<"l", "e", "t", " ", "=", " ", "5", ";", " ", "a">>,
    \* let x 5; return 1
    <<"l", "e", "t", " ", "x", " ", "5", ";", " ", "r", "e", "t", "u", "r", "n",
      " ", "1">>,
    \* 9223372036854775808
    <<"9", "2", "2", "3", "3", "7", "2", "0", "3", "6", "8", "5", "4", "7", "7",
      "5", "8", "0", "8">>,
    \* a + 99999999999999999999;
    <<"a", " ", "+", " ", "9", "9", "9", "9", "9", "9", "9", "9", "9", "9", "9",
      "9", "9", "9", "9", "9", "9", "9", "9", "9", ";">>,
    \* 0777777777777777777777
    <<"0", "7", "7", "7", "7", "7", "7", "7", "7", "7", "7", "7", "7", "7", "7",
      "7", "7", "7", "7", "7", "7", "7">>,
    \* "ab" x
    <<"\"", "a", "b", "\"", " ", "x">>,
    \* a<NUL>b
    <<"a", NUL, "b">>,
    \* return;
    <<"r", "e", "t", "u", "r", "n", ";">>,
    \* if (a) { let b = 1 } c
    <<"i", "f", " ", "(", "a", ")", " ", "{", " ", "l", "e", "t", " ", "b", " ",
      "=", " ", "1", " ", "}", " ", "c">>
>>

\* the sources of kind "ins" are those of Bases with the byte @, which no
\* token starts with, put in at one place
Bases == <<
    \* fn(x, y) { x + y }(1, 2)
    <<"f", "n", "(", "x", ",", " ", "y", ")", " ", "{", " ", "x", " ", "+", " ",
      "y", " ", "}", "(", "1", ",", " ", "2", ")">>,
    \* let x = if (!a) { b } else { -c };
    <<"l", "e", "t", " ", "x", " ", "=", " ", "i", "f", " ", "(", "!", "a", ")",
      " ", "{", " ", "b", " ", "}", " ", "e", "l", "s", "e", " ", "{", " ", "-",
      "c", " ", "}", ";">>
>>

\* src with the byte ch put in after its first at bytes
InsertAt(src, at, ch) == SubSeq(src, 1, at) \o <<ch>> \o SubSeq(src, at + 1, Len(src))

\* the bytes of an input that reaches the parser through the lexer
BytesOf(src) ==
    IF src.kind = "src" THEN Sources[src.first]
    ELSE InsertAt(Bases[src.first], src.at, "@")

ParserInputs ==
    {[kind |-> "expr", ops |-> ops, first |-> first, semi |-> semi] :
        ops \in SeqsUpTo(InfixOperators, MaxOps), first \in 1..Len(Operands),
        semi \in BOOLEAN}
    \cup {[kind |-> "text", ops |-> <<>>, first |-> i, semi |-> FALSE] :
            i \in 1..Len(Texts)}
    \cup {[kind |-> "src", ops |-> <<>>, first |-> i, semi |-> FALSE] :
            i \in 1..Len(Sources)}
    \cup UNION {{[kind |-> "ins", ops |-> <<>>, first |-> i, semi |-> FALSE, at |-> k] :
                    k \in 0..Len(Bases[i])} : i \in 1..Len(Bases)}

\* the tokens the lexer hands out for an input, up to its endless EOF
TokensOf(src) ==
    CASE src.kind = "expr" ->
            OperandAt(src.first, 0).toks \o ExprTokens(src.ops, src.first, 0)
            \o (IF src.semi THEN <<Ch(";")>> ELSE <<>>)
      [] src.kind = "text" -> Texts[src.first]
      [] OTHER -> TokensFrom(NewLexer(BytesOf(src)))

---------------------------------------------------------------------------
(* The String methods of the nodes (package ast).  A string is printed as  *)
(* its bytes.  lits is the set of the Literals of the tokens the nodes     *)
(* were built from: a node prints the Literal of its Token.                *)

Literals(toks) == {toks[i].Literal : i \in 1..Len(toks)}

\* the bytes of a Literal that a node holds as a string
Bytes(str, lits) == CHOOSE cs \in lits : Str(cs) = str

RECURSIVE Join(_, _)
\* strings.Join
Join(strs, sep) ==
    IF strs = <<>> THEN <<>>
    ELSE IF Len(strs) = 1 THEN strs[1]
    ELSE strs[1] \o sep \o Join(Tail(strs), sep)

\* what a String method called on a nil node is taken to print: the call
\* panics (nil pointer dereference)
NilString == <<"panic: nil pointer dereference">>

RECURSIVE NodeString(_, _)
RECURSIVE Strings(_, _)

\* the String of each node of a list
Strings(nodes, lits) == [i \in 1..Len(nodes) |-> NodeString(nodes[i], lits)]

NodeString(node, lits) ==
    CASE node.type = "nil" -> NilString
      [] node.type = "LetStatement" ->
            <<"l", "e", "t", " ">> \o NodeString(node.Name, lits) \o <<" ", "=", " ">>
            \o (IF node.Value # NilNode THEN NodeString(node.Value, lits) ELSE <<>>)
            \o <<";">>
      [] node.type = "ReturnStatement" ->
            <<"r", "e", "t", "u", "r", "n", " ">>
            \o (IF node.ReturnValue # NilNode THEN NodeString(node.ReturnValue, lits) ELSE <<>>)
            \o <<";">>
      [] node.type = "ExpressionStatement" ->
            IF node.Expression # NilNode THEN NodeString(node.Expression, lits) ELSE <<>>
      [] node.type = "BlockStatement" -> Join(Strings(node.Statements, lits), <<>>)
      [] node.type = "Identifier" -> Bytes(node.Value, lits)
      [] node.type = "IntegerLiteral" -> Bytes(node.Literal, lits)
      [] node.type = "Boolean" ->
            IF node.Bool THEN <<"t", "r", "u", "e">> ELSE <<"f", "a", "l", "s", "e">>
      [] node.type = "PrefixExpression" ->
            <<"(">> \o Bytes(node.Operator, lits) \o NodeString(node.Right, lits) \o <<")">>
      [] node.type = "InfixExpression" ->
            <<"(">> \o NodeString(node.Left, lits) \o <<" ">> \o Bytes(node.Operator, lits)
            \o <<" ">> \o NodeString(node.Right, lits) \o <<")">>
      [] node.type = "IfExpression" ->
            <<"i", "f">> \o NodeString(node.Condition, lits) \o <<" ">>
            \o NodeString(node.Consequence, lits)
            \o (IF node.Alternative # NilNode
                THEN <<"e", "l", "s", "e", " ">> \o NodeString(node.Alternative, lits)
                ELSE <<>>)
      [] node.type = "FunctionLiteral" ->
            <<"f", "n", "(">> \o Join(Strings(node.Parameters, lits), <<",", " ">>)
            \o <<")", " ">> \o NodeString(node.Body, lits)
      [] node.type = "CallExpression" ->
            NodeString(node.Function, lits) \o <<"(">>
            \o Join(Strings(node.Arguments, lits), <<",", " ">>) \o <<")">>

\* Program.String
ProgramString(stmts, lits) == Join(Strings(stmts, lits), <<>>)

---------------------------------------------------------------------------
(* The parser's state machine: p := New(l); program := p.ParseProgram()    *)

EvalIdle ==
    /\ program = <<>>
    /\ pc = 1
    /\ result = NIL
    /\ done = TRUE
    /\ envs = <<NewEnvironment>>
    /\ nextAddr = FirstAddr
    /\ panic = ""
    /\ evaluated = <<>>
    /\ trace = <<>>
    /\ lookups = <<>>
    /\ calls = <<>>
    /\ operands = {}
    /\ defs = [a \in {} |-> 0]
    /\ lex = (GlobalEnv :> 0)

InitParser ==
    /\ source \in ParserInputs
    /\ tokens = TokensOf(source)
    /\ pos = New(tokens).pos
    /\ errors = New(tokens).errors
    /\ statements = <<>>
    /\ pstate = "parsing"
    /\ EvalIdle
    /\ TripIdle
    /\ LexerIdle
    /\ OtherIdle

ParserState == [toks |-> tokens, pos |-> pos, errors |-> errors, log |-> <<>>]

\* one turn of the loop of ParseProgram
ParseStatement ==
    /\ pstate = "parsing"
    /\ ~curTokenIs(ParserState, EOF)
    /\ \E r \in {ParseProgramStep(ParserState, statements)} :
          /\ statements' = r.statements
          /\ pos' = r.ps.pos
          /\ errors' = r.ps.errors
          /\ parsed' = r.ps.log
    /\ UNCHANGED <<source, tokens, pstate, evalVars, tripVars, lexVars,
                   session, builtin, operation, peeked>>

\* the loop of ParseProgram ends on token.EOF
ParseProgramReturn ==
    /\ pstate = "parsing"
    /\ curTokenIs(ParserState, EOF)
    /\ pstate' = "done"
    /\ UNCHANGED <<source, tokens, pos, errors, statements, evalVars, tripVars, lexVars,
                   otherVars>>

NextParser == ParseStatement \/ ParseProgramReturn

SpecParser == InitParser /\ [][NextParser]_vars

\* the kinds the parsing functions call expectPeek with
Expected == {IDENT, ASSIGN, LPAREN, RPAREN, LBRACE}

\* p.nextToken(), while tokens are left, on a Parser that has built no
\* statement and has not been asked for a token kind
CallNextToken ==
    /\ pstate = "parsing"
    /\ ~curTokenIs(ParserState, EOF)
    /\ statements = <<>>
    /\ peeked.t = ""
    /\ pos' = nextToken(ParserState).pos
    /\ UNCHANGED <<source, tokens, errors, statements, pstate, evalVars, tripVars,
                   lexVars, otherVars>>

\* p.expectPeek(t), once
CallExpectPeek ==
    /\ pstate = "parsing"
    /\ peeked.t = ""
    /\ \E t \in Expected :
          \E e \in {expectPeek(ParserState, t)} :
              /\ pos' = e.ps.pos
              /\ errors' = e.ps.errors
              /\ peeked' = [t |-> t, ok |-> e.ok]
    /\ UNCHANGED <<source, tokens, statements, pstate, evalVars, tripVars, lexVars,
                   session, builtin, operation, parsed>>

\* the operations of a Parser, called in any order
NextParserCalls ==
    \/ ParseStatement
    \/ ParseProgramReturn
    \/ CallNextToken
    \/ CallExpectPeek

\* longest operator chain among the inputs of these calls
MaxCallOps == 1

InitParserCalls ==
    /\ InitParser
    /\ source.kind = "expr" => Len(source.ops) <= MaxCallOps

SpecParserCalls == InitParserCalls /\ [][NextParserCalls]_vars

\* the inputs of the runs followed to their end: the source texts, and the
\* single operands
LiveInputs == {src \in ParserInputs : src.ops = <<>>}

InitParserLive ==
    /\ InitParser
    /\ source \in LiveInputs

\* weak fairness of ParseStatement, with the condition of the loop written
\* in the place of ENABLED: the body of the loop has no other guard
FairParseStatement ==
    \/ []<>(~(pstate = "parsing" /\ ~curTokenIs(ParserState, EOF)))
    \/ []<><<ParseStatement>>_vars

\* ParseProgram is one call: once started its loop runs on to its return
SpecParserLive ==
    /\ InitParserLive
    /\ [][NextParser]_vars
    /\ FairParseStatement
    /\ WF_vars(ParseProgramReturn)

---------------------------------------------------------------------------
(* The round trip: a source is parsed, the String of its Program is taken  *)
(* as a new source, and that one is lexed and parsed in turn.              *)

\* longest operator chain among the inputs of the round trip
MaxTripOps == 0

RoundTripInputs ==
    {src \in ParserInputs : src.kind = "expr" => Len(src.ops) <= MaxTripOps}

InitRoundTrip ==
    /\ source \in RoundTripInputs
    /\ tokens = TokensOf(source)
    /\ pos = New(tokens).pos
    /\ errors = New(tokens).errors
    /\ statements = <<>>
    /\ pstate = "parsing"
    /\ EvalIdle
    /\ TripIdle
    /\ LexerIdle
    /\ OtherIdle

\* l := lexer.New(program.String()); p := parser.New(l), after a parse without errors
Reparse ==
    /\ pstate = "done"
    /\ pass = 1
    /\ errors = <<>>
    /\ canon' = ProgramString(statements, Literals(tokens))
    /\ tokens' = TokensFrom(NewLexer(canon'))
    /\ pos' = New(tokens').pos
    /\ errors' = New(tokens').errors
    /\ statements' = <<>>
    /\ pstate' = "parsing"
    /\ pass' = 2
    /\ UNCHANGED <<source, evalVars, lexVars, otherVars>>

NextRoundTrip == ParseStatement \/ ParseProgramReturn \/ Reparse

SpecRoundTrip == InitRoundTrip /\ [][NextRoundTrip]_vars

---------------------------------------------------------------------------
(* The lexer's state machine: l := lexer.New(input), then calls of         *)
(* l.NextToken() one after the other.  emitted is the log of the calls:    *)
(* the position the lexer stood at, and the token the call returned.       *)

\* longest input, in bytes
MaxInputLen == 3

\* most calls of NextToken after the input is used up
MaxEOFCalls == 3

\* a letter, a digit, a blank, the two bytes that peek ahead, a one-byte
\* token, the quote, a byte that starts no token, and the byte 0
LexBytes == {"a", "1", " ", "=", "!", ";", "\"", "@", NUL}

LexerInputs == UNION {[1..n -> LexBytes] : n \in 0..MaxInputLen}

InitLexer ==
    /\ \E input \in LexerInputs : lexer = NewLexer(input)
    /\ emitted = <<>>
    /\ EvalIdle
    /\ ParserIdle
    /\ TripIdle
    /\ OtherIdle

\* tok := l.NextToken()
NextTokenCall ==
    /\ lexer.position < Len(lexer.input) + MaxEOFCalls
    /\ LET r == NextToken(lexer)
       IN /\ lexer' = r.l
          /\ emitted' = Append(emitted, [at |-> lexer.position, tok |-> r.tok])
    /\ UNCHANGED <<evalVars, parserVars, tripVars, otherVars>>

NextLexer == NextTokenCall

SpecLexer == InitLexer /\ [][NextLexer]_vars

---------------------------------------------------------------------------
(* The REPL (package repl): Start makes one environment, then for every    *)
(* line it reads, lexes and parses it, prints the errors of the parser if  *)
(* there are any, and otherwise evaluates the Program in the environment.  *)
(* session is the log of the lines read.                                   *)

\* most lines read in a session
MaxLines == 3

\* the lines a user may type
Lines == <<
    \* let x = 5;
    <<"l", "e", "t", " ", "x", " ", "=", " ", "5", ";">>,
    \* x
    <<"x">>,
    \* let y = x; @
    <<"l", "e", "t", " ", "y", " ", "=", " ", "x", ";", " ", "@">>,
    \* y
    <<"y">>,
    \* let x 1
    <<"l", "e", "t", " ", "x", " ", "1">>,
    \* let x = x + 1; let z = fn(a) { a + x }(x);
    <<"l", "e", "t", " ", "x", " ", "=", " ", "x", " ", "+", " ", "1", ";", " ",
      "l", "e", "t", " ", "z", " ", "=", " ", "f", "n", "(", "a", ")", " ", "{", " ",
      "a", " ", "+", " ", "x", " ", "}", "(", "x", ")", ";">>,
    \* let y = 5; q; let x = 1;
    <<"l", "e", "t", " ", "y", " ", "=", " ", "5", ";", " ", "q", ";", " ",
      "l", "e", "t", " ", "x", " ", "=", " ", "1", ";">>
>>

RECURSIVE evalProgramLoop(_, _, _, _)
\* evalProgram: the loop over program.Statements, from statement i on
evalProgramLoop(stmts, i, res, st) ==
    IF i > Len(stmts) THEN Ret(res, st)
    ELSE LET r == Eval(stmts[i], GlobalEnv, st, <<>>)
             n == evalProgramNext(r, i)
         IN IF Dead(r) THEN r
            ELSE IF n.done THEN Ret(n.result, r.st)
            ELSE evalProgramLoop(stmts, n.pc, n.result, r.st)

\* Eval(program, env)
evalProgram(stmts, st) == evalProgramLoop(stmts, 1, NIL, st)

\* the end of the body of the loop of Start, for the outcome p of
\* ParseProgram: print the errors and continue, or evaluate the Program
EvalUnlessErrors(p, st) ==
    IF Len(p.ps.errors) # 0
    THEN [p |-> p, evaluated |-> FALSE, r |-> Ret(NIL, st)]
    ELSE [p |-> p, evaluated |-> TRUE, r |-> evalProgram(p.statements, st)]

\* a body of the loop of Start that evaluates the Program whatever the
\* parser reported
StartLine_NoErrorCheck(line, st) ==
    LET p == ParseProgram(TokensFrom(NewLexer(line)))
    IN [p |-> p, evaluated |-> TRUE, r |-> evalProgram(p.statements, st)]

\* a body of the loop of Start that puts the environment back as it was when
\* the Program evaluates to an Error
StartLine_RollBack(line, st) ==
    LET s == EvalUnlessErrors(ParseProgram(TokensFrom(NewLexer(line))), st)
    IN IF isError(s.r.val) THEN [s EXCEPT !.r.st.envs = st.envs] ELSE s

\* the body of the loop of Start, for a line and the state of the
\* evaluator: the parse, whether Eval was called, and its outcome
StartLine(line, st) == EvalUnlessErrors(ParseProgram(TokensFrom(NewLexer(line))), st)

InitREPL ==
    /\ EvalIdle
    /\ ParserIdle
    /\ TripIdle
    /\ LexerIdle
    /\ OtherIdle

\* scanner.Scan() hands a line to the body of the loop
ReadLine ==
    /\ Len(session) < MaxLines
    /\ panic = ""
    /\ \E k \in 1..Len(Lines) :
          \E s \in {StartLine(Lines[k], EvalState)} :
             /\ tokens' = TokensFrom(NewLexer(Lines[k]))
             /\ pos' = s.p.ps.pos
             /\ errors' = s.p.ps.errors
             /\ statements' = s.p.statements
             /\ pstate' = "done"
             /\ envs' = s.r.st.envs
             /\ nextAddr' = s.r.st.next
             /\ panic' = s.r.st.panic
             /\ trace' = s.r.st.trace
             /\ lookups' = s.r.st.lookups
             /\ calls' = s.r.st.calls
             /\ operands' = s.r.st.operands
             /\ defs' = s.r.st.defs
             /\ lex' = s.r.st.lex
             /\ result' = s.r.val
             /\ session' = Append(session,
                    [line |-> k, errors |-> s.p.ps.errors, evaluated |-> s.evaluated,
                     before |-> envs, after |-> s.r.st.envs, value |-> s.r.val])
    /\ UNCHANGED <<program, pc, done, evaluated, source, tripVars, lexVars, builtin,
                   operation, peeked, parsed>>

NextREPL == ReadLine

SpecREPL == InitREPL /\ [][NextREPL]_vars

---------------------------------------------------------------------------
(* The builtin functions (package evaluator, builtins).  A builtin is      *)
(* called with the list of the evaluated arguments.                        *)

BUILTIN_OBJ == "BUILTIN"
ARRAY_OBJ == "ARRAY"

\* object.Array
Array(elements, addr) == [kind |-> ARRAY_OBJ, Elements |-> elements, addr |-> addr]

\* object.Builtin
Builtin(name, addr) == [kind |-> BUILTIN_OBJ, Fn |-> name, addr |-> addr]

\* most arguments handed to a builtin
MaxArgs == 2

\* the values of the String objects handed to a builtin, as bytes
StringValues == {<<>>, <<"a">>, <<"a", "b">>, <<"h", "e", "l", "l", "o", " ", "w">>}

\* the objects handed to a builtin, at addresses below FirstAddr + 20
ArgObjects ==
    {String(Str(cs), FirstAddr + Len(cs)) : cs \in StringValues}
    \cup {Integer(Int64(3), FirstAddr + 8), TrueObj, NULL,
          Error("boom", FirstAddr + 9),
          Function(<<>>, BlockStatement(<<>>), GlobalEnv, FirstAddr + 10),
          Builtin("len", FirstAddr + 11),
          Array(<<>>, FirstAddr + 12),
          Array(<<Integer(Int64(3), FirstAddr + 8)>>, FirstAddr + 13),
          Array(<<TrueObj, NULL, Integer(Int64(3), FirstAddr + 8)>>, FirstAddr + 14)}

ArgLists == UNION {[1..n -> ArgObjects] : n \in 0..MaxArgs}

\* builtins["len"].Fn(args...); the objects it makes are allocated in st.
\* The back quotes of the second message are written as quotes.
builtinLen(args, st) ==
    IF Len(args) # 1
    THEN newError("wrong number of arguments. got=" \o ToString(Len(args)) \o ", want=1",
                  st)
    ELSE IF Type(args[1]) = STRING_OBJ
    THEN Ret(Integer(Int64(Len(Bytes(args[1].str, StringValues))), st.next), Alloc(st))
    ELSE newError("argument to 'len' not supported, got " \o Type(args[1]), st)

InitBuiltin ==
    /\ EvalIdle
    /\ ParserIdle
    /\ TripIdle
    /\ LexerIdle
    /\ OtherIdle

\* the call of len with a list of arguments
CallLen ==
    /\ ~builtin.called
    /\ \E args \in ArgLists :
          LET r == builtinLen(args, [EvalState EXCEPT !.next = FirstAddr + 20])
          IN builtin' = [called |-> TRUE, args |-> args, result |-> r.val,
                         panic |-> r.st.panic]
    /\ UNCHANGED <<evalVars, parserVars, tripVars, lexVars, session, operation,
                   peeked, parsed>>

NextBuiltin == CallLen

SpecBuiltin == InitBuiltin /\ [][NextBuiltin]_vars

---------------------------------------------------------------------------
(* The operators, applied to operands the evaluator can hand them *)

\* the operators the parser builds an InfixExpression with
EvalOperators == {"+", "-", "*", "/", "<", ">", "==", "!="}

MaxInt64 == <<255, 255, 255, 255, 255, 255, 255, 127>>
MinInt64 == <<0, 0, 0, 0, 0, 0, 0, 128>>

\* the values of the Integer objects: small ones of both signs, the two ends
\* of the range, 2^32, and the first integer whose square leaves the range
IntegerValues ==
    <<Int64(0), Int64(1), Int64(0 - 1), Int64(2), Int64(0 - 7), MaxInt64, MinInt64,
      Add64(MinInt64, Int64(1)), Mul64(Int64(65536), Int64(65536)),
      Int64Of(<<"3", "0", "3", "7", "0", "0", "0", "5", "0", "0">>, 10)>>

\* the objects an operator is applied to, at addresses below FirstAddr + 20:
\* an operand is whatever Eval returned for the operand's expression and
\* isError let through, the nil of a block ending in a let included
OperandObjects ==
    {Integer(IntegerValues[i], FirstAddr + i) : i \in DOMAIN IntegerValues}
    \cup {TrueObj, FalseObj, NULL, NIL,
          String("a", FirstAddr + 11), String("a", FirstAddr + 12),
          Function(<<>>, BlockStatement(<<>>), GlobalEnv, FirstAddr + 13),
          ReturnValue(TrueObj, FirstAddr + 14)}

InitOperators ==
    /\ EvalIdle
    /\ ParserIdle
    /\ TripIdle
    /\ LexerIdle
    /\ session = <<>>
    /\ builtin = [called |-> FALSE, args |-> <<>>, result |-> NIL, panic |-> ""]
    /\ peeked = [t |-> "", ok |-> FALSE]
    /\ parsed = <<>>
    /\ operation \in [operator : EvalOperators, left : OperandObjects,
                      right : OperandObjects, fn : {""}, result : {NIL},
                      panic : {""}]

\* Eval, case *ast.InfixExpression, from the call of evalInfixExpression on
ApplyInfix ==
    /\ operation.fn = ""
    /\ \E r \in {evalInfixExpression(operation.operator, operation.left,
                                      operation.right,
                                      [EvalState EXCEPT !.next = FirstAddr + 20])} :
          operation' = [operation EXCEPT !.fn = "evalInfixExpression",
                                         !.result = r.val, !.panic = r.st.panic]
    /\ UNCHANGED <<evalVars, parserVars, tripVars, lexVars, session, builtin, peeked,
                   parsed>>

\* evalPrefixExpression, case "-", on the right operand
ApplyMinus ==
    /\ operation.fn = ""
    /\ \E r \in {evalMinusPrefixOperatorExpression(
                      operation.right, [EvalState EXCEPT !.next = FirstAddr + 20])} :
          operation' = [operation EXCEPT !.fn = "evalMinusPrefixOperatorExpression",
                                         !.result = r.val, !.panic = r.st.panic]
    /\ UNCHANGED <<evalVars, parserVars, tripVars, lexVars, session, builtin, peeked,
                   parsed>>

NextOperators == ApplyInfix \/ ApplyMinus

SpecOperators == InitOperators /\ [][NextOperators]_vars

---------------------------------------------------------------------------
(* Claims about the parser *)

\* the rung of an infix operator on the ladder, as the grammar states it
Rung(op) ==
    CASE op \in {"==", "!="} -> 1
      [] op \in {"<", ">"} -> 2
      [] op \in {"+", "-"} -> 3
      [] op \in {"*", "/"} -> 4

\* the operator a chain splits at: the last one of the lowest rung
SplitAt(ops) ==
    CHOOSE k \in 1..Len(ops) :
        /\ \A j \in 1..Len(ops) : Rung(ops[k]) <= Rung(ops[j])
        /\ \A j \in (k + 1)..Len(ops) : Rung(ops[k]) < Rung(ops[j])

RECURSIVE Grouping(_, _, _)
\* the tree of operands lo..hi (counted from 0) of an input: operator i sits
\* between operands i - 1 and i
Grouping(src, lo, hi) ==
    IF lo = hi THEN OperandAt(src.first, lo).node
    ELSE LET k == lo + SplitAt(SubSeq(src.ops, lo + 1, hi))
         IN InfixExpression(Grouping(src, lo, k - 1), src.ops[k], Grouping(src, k, hi))

\* C10: an expression of operands (identifiers, literals, prefix - and !,
\* calls, parenthesised groups) joined by the eight infix operators parses,
\* without errors, to the one tree in which an operator of a higher rung of
\* the ladder binds tighter and operators of one rung group to the left.
C10_PrecedenceAndLeftAssociativity ==
    (pstate = "done" /\ source.kind = "expr") =>
        /\ errors = <<>>
        /\ statements = <<ExpressionStatement(Grouping(source, 0, Len(source.ops)))>>

\* a + -a * !true - f(a, b + 1) has been parsed to
\* ((a + ((-a) * (!true))) - f(a, (b + 1)))
C10_Witness ==
    /\ pstate = "done"
    /\ source.kind = "expr"
    /\ source.first = 1
    /\ source.ops = <<"+", "*", "-">>
    /\ statements = <<ExpressionStatement(
           InfixExpression(
               InfixExpression(Id("a"), "+",
                   InfixExpression(PrefixExpression("-", Id("a")), "*",
                                   PrefixExpression("!", Boolean(TRUE)))),
               "-",
               CallExpression(Id("f"),
                              <<Id("a"), InfixExpression(Id("b"), "+", Num(1))>>)))>>

\* C11: when a source parses without errors, the String of its Program
\* parses without errors too, to a Program with the very same String.
C11_RoundTrip ==
    (pstate = "done" /\ pass = 2) =>
        /\ errors = <<>>
        /\ ProgramString(statements, Literals(tokens)) = canon

\* the places of the ILLEGAL tokens in the token stream
IllegalAt == {i \in 1..Len(tokens) : tokens[i].Type = ILLEGAL}

\* C12: a byte that starts no token comes out of the lexer as one ILLEGAL
\* token holding that byte, and a token stream with an ILLEGAL token in it,
\* wherever it stands, leaves the parser with at least one error.
C12_IllegalTokenRejected ==
    pstate = "done" =>
        /\ source.kind = "ins" =>
              /\ Cardinality(IllegalAt) = 1
              /\ \A i \in IllegalAt : tokens[i] = Token(ILLEGAL, <<"@">>)
        /\ IllegalAt # {} => errors # <<>>

\* C14: nothing is appended to Program.Statements for a statement whose
\* sub-parser returned nil: every element of Program.Statements is a node.
C14_NoNilStatement ==
    \A i \in 1..Len(statements) : statements[i].type # "nil"

\* a turn of either loop (of ParseProgram, of parseBlockStatement) is
\* parseStatement then nextToken; started on any token of the stream but
\* EOF, it ends further on in the stream
EveryTurnAdvances ==
    \A k \in 1..Len(tokens) :
        LET ps == [toks |-> tokens, pos |-> k, errors |-> <<>>, log |-> <<>>]
        IN ~curTokenIs(ps, EOF) => ParseProgramStep(ps, <<>>).ps.pos > k

\* C15: ParseProgram terminates, with or without errors: every turn of its
\* loop and of the loop of parseBlockStatement moves the current token on,
\* the parser never moves back, and it returns standing on EOF.
C15_Terminates ==
    /\ [][pos' >= pos /\ (pstate' = "parsing" => pos' > pos)]_vars
    /\ <>(pstate = "done")
    /\ [](pstate = "done" => curTokenIs(ParserState, EOF) /\ EveryTurnAdvances)

\* ParseProgram has returned after two turns or more, with errors recorded
C15_Witness ==
    /\ pstate = "done"
    /\ errors # <<>>
    /\ Len(statements) >= 2

\* the nodes a node holds in its fields
Children(node) ==
    CASE node.type = "LetStatement" -> {node.Name, node.Value}
      [] node.type = "ReturnStatement" -> {node.ReturnValue}
      [] node.type = "ExpressionStatement" -> {node.Expression}
      [] node.type = "BlockStatement" ->
            {node.Statements[i] : i \in 1..Len(node.Statements)}
      [] node.type = "PrefixExpression" -> {node.Right}
      [] node.type = "InfixExpression" -> {node.Left, node.Right}
      [] node.type = "IfExpression" ->
            {node.Condition, node.Consequence, node.Alternative}
      [] node.type = "FunctionLiteral" ->
            {node.Parameters[i] : i \in 1..Len(node.Parameters)} \cup {node.Body}
      [] node.type = "CallExpression" ->
            {node.Function} \cup {node.Arguments[i] : i \in 1..Len(node.Arguments)}
      [] OTHER -> {}

RECURSIVE NodesIn(_)
\* a node and every node under it
NodesIn(node) == {node} \cup UNION {NodesIn(c) : c \in Children(node)}

\* every node of the Program
ProgramNodes == UNION {NodesIn(statements[i]) : i \in 1..Len(statements)}

\* the Value of every parameter of every FunctionLiteral of the Program
ProgramParameters ==
    UNION {{n.Parameters[i].Value : i \in 1..Len(n.Parameters)} :
              n \in {m \in ProgramNodes : m.type = "FunctionLiteral"}}

\* what the IDENT tokens of the stream spell; no token of another type
\* spells the same, a run of letters being IDENT unless it is a keyword
IdentSpellings ==
    {Str(tokens[i].Literal) : i \in {j \in 1..Len(tokens) : tokens[j].Type = IDENT}}

\* C16: in a Program parsed without errors every parameter of every
\* FunctionLiteral was built from a token of type IDENT.
C16_ParametersAreIdentifiers ==
    (pstate = "done" /\ errors = <<>>) =>
        ProgramParameters \subseteq IdentSpellings

\* a run of decimal digits that denotes a number above 1<<63 - 1
DecimalOutOfInt64(literal) ==
    LET ds == DropZeros(literal)
    IN \/ Len(ds) > Len(MaxInt64Digits)
       \/ Len(ds) = Len(MaxInt64Digits) /\ Before(MaxInt64Digits, ds)

\* the places of the INT tokens that denote a number out of the int64 range
OutOfRangeAt ==
    {i \in 1..Len(tokens) : tokens[i].Type = INT /\ DecimalOutOfInt64(tokens[i].Literal)}

CouldNotParse(literal) == "could not parse \"" \o Str(literal) \o "\" as integer"

\* C17: an INT token whose digits denote a number outside the int64 range
\* gives no IntegerLiteral node, and exactly one error `could not parse
\* "<literal>" as integer`.
C17_OutOfRangeIsAnError ==
    pstate = "done" =>
        \A i \in OutOfRangeAt :
            /\ \A n \in ProgramNodes :
                  n.type = "IntegerLiteral" => n.Literal # Str(tokens[i].Literal)
            /\ Cardinality({k \in 1..Len(errors) :
                               errors[k] = CouldNotParse(tokens[i].Literal)})
                  = Cardinality({j \in OutOfRangeAt : tokens[j].Literal = tokens[i].Literal})

\* C28: for every INT token whose digits denote a number within the int64
\* range parseIntegerLiteral returns the IntegerLiteral whose value is that
\* number read in base 10, leading zeros included (010 is ten, 08 is eight),
\* and records no error.
C28_ReadInBaseTen ==
    \A i \in DOMAIN parsed :
        (/\ tokens[parsed[i].from].Type = INT
         /\ parsed[i].fn = "prefix"
         /\ ~DecimalOutOfInt64(tokens[parsed[i].from].Literal)) =>
            /\ parsed[i].node =
                  IntegerLiteral(Str(tokens[parsed[i].from].Literal),
                                 Int64Of(DropZeros(tokens[parsed[i].from].Literal), 10))
            /\ parsed[i].errors = 0

---------------------------------------------------------------------------
(* Claims about the lexer *)

\* C13: every call of NextToken made once all the bytes of the input have
\* been read returns the token EOF with the empty literal, and leaves the
\* lexer at the end of its input.
C13_EOFForEver ==
    /\ \A i \in 1..Len(emitted) :
          emitted[i].at >= Len(lexer.input) => emitted[i].tok = Token(EOF, <<>>)
    /\ \A i, j \in 1..Len(emitted) :
          (i < j /\ emitted[i].at >= Len(lexer.input)) => emitted[j].at >= Len(lexer.input)

\* MaxEOFCalls calls in a row made after the end of an input that held tokens
C13_Witness ==
    /\ Len(emitted) > MaxEOFCalls
    /\ emitted[1].tok.Type # EOF
    /\ \A i \in 1..Len(emitted) :
          i > Len(emitted) - MaxEOFCalls => emitted[i].at >= Len(lexer.input)

\* the place (from 0) of the first byte at or after place k that is not
\* white space: where the token of a call made at k starts
TokenStart(k) ==
    CHOOSE q \in k..Len(lexer.input) :
        /\ q < Len(lexer.input) => lexer.input[q + 1] \notin {" ", "\t", "\n", "\r"}
        /\ \A j \in k..(q - 1) : lexer.input[j + 1] \in {" ", "\t", "\n", "\r"}

\* the place of the first quote after the opening quote at q, or the length
\* of the input when there is none
StringEnd(q) ==
    CHOOSE c \in (q + 1)..Len(lexer.input) :
        /\ c < Len(lexer.input) => lexer.input[c + 1] = "\""
        /\ \A j \in (q + 1)..(c - 1) : lexer.input[j + 1] # "\""

\* C20: the literal of a STRING token is the bytes from the opening quote to
\* the closing quote, both left out, or to the end of the input when no
\* quote closes it; the call after a closed string starts past the closing
\* quote, the call after an open one returns EOF, and the lexer reads
\* nothing beyond the input.
C20_StringLiteralBytes ==
    \A i \in 1..Len(emitted) :
        emitted[i].tok.Type = T_STRING =>
            LET q == TokenStart(emitted[i].at)
                c == StringEnd(q)
            IN /\ emitted[i].tok.Literal = Slice(lexer.input, q + 1, c)
               /\ i < Len(emitted) =>
                     /\ emitted[i + 1].at <= Len(lexer.input) + 1
                     /\ IF c < Len(lexer.input)
                        THEN emitted[i + 1].at = c + 1
                        ELSE emitted[i + 1].tok = Token(EOF, <<>>)

\* C27: NextToken returns EOF only once every byte of the input has been
\* consumed, so EOF is absorbing: after a call that returned EOF no call
\* returns a token of another kind, whatever the bytes of the input are, the
\* byte 0 included.
C27_EOFIsAbsorbing ==
    \A i \in 1..Len(emitted) :
        emitted[i].tok.Type = EOF =>
            /\ (IF i < Len(emitted) THEN emitted[i + 1].at ELSE lexer.position)
                  >= Len(lexer.input)
            /\ \A j \in i..Len(emitted) : emitted[j].tok.Type = EOF

---------------------------------------------------------------------------
(* Claims about the REPL *)

\* the names the session environment binds
Bound(es) == DOMAIN es[GlobalEnv].store

\* C18: a line that parses with errors is not evaluated and leaves the
\* session environment as it was; every line starts from the environment
\* the line before left, which binds all that the earlier lines bound.
C18_ErrorLineNotEvaluated ==
    \A j \in 1..Len(session) :
        /\ session[j].errors # <<>> =>
              ~session[j].evaluated /\ session[j].after = session[j].before
        /\ j > 1 => session[j].before = session[j - 1].after
        /\ \A i \in 1..j : Bound(session[i].before) \subseteq Bound(session[j].after)

\* a line with a parse error after a let, read after a line that bound x,
\* and followed by a line that reads x
C18_Witness ==
    /\ Len(session) = 3
    /\ session[1].line = 1 /\ session[1].errors = <<>>
    /\ session[2].line = 3 /\ session[2].errors # <<>>
    /\ session[3].line = 2 /\ session[3].value.kind = INTEGER_OBJ

\* what evalProgram returns for the first i statements of the line read by
\* the step, in the session as it was before the step
Upto(i) == evalProgram(SubSeq(statements', 1, i), EvalState)

\* the statements of the line read by the step up to which evalProgram
\* returns an Error
Failing == {i \in 1..Len(statements') : isError(Upto(i).val)}

FirstFailing == CHOOSE i \in Failing : \A j \in Failing : i <= j

\* C30: the Error of an evaluation rolls nothing back: when a statement of a
\* line evaluates to an Error, the bindings made by the lets before it stay in
\* the environment of the session, where the later lines see them, and the
\* statements after it have no effect.
C30_ErrorsNotRolledBack ==
    [][(/\ session' # session
        /\ errors' = <<>>
        /\ panic' = ""
        /\ Failing # {}) =>
            /\ isError(result')
            /\ envs' = Upto(FirstFailing).st.envs
            /\ Bound(envs) \subseteq Bound(envs')
            /\ \A i \in 1..(FirstFailing - 1) :
                  statements'[i].type = "LetStatement" =>
                      statements'[i].Name.Value \in Bound(envs')]_vars

\* `let y = 5; q; let x = 1;` has been read, then `y`, then `x`: the first line
\* gave an Error, y is the Integer the first let bound, x is not found
C30_LetBeforeErrorIsSeen ==
    /\ Len(session) = 3
    /\ session[1].line = 7 /\ session[1].value.kind = ERROR_OBJ
    /\ session[2].line = 4 /\ session[2].value.kind = INTEGER_OBJ
    /\ session[3].line = 2 /\ session[3].value.kind = ERROR_OBJ

---------------------------------------------------------------------------
(* Claims about the builtins *)

\* C19: len of one String is the Integer of its length in bytes, len of one
\* Array is the Integer of its number of elements, and len of anything else,
\* or of no or several arguments, is an Error; the call never fails.
C19_LenOfStringAndArray ==
    builtin.called =>
        LET args == builtin.args
            r == builtin.result
        IN /\ builtin.panic = ""
           /\ CASE Len(args) = 1 /\ Type(args[1]) = STRING_OBJ ->
                     /\ Type(r) = INTEGER_OBJ
                     /\ \E cs \in StringValues : Str(cs) = args[1].str /\ r.int = Int64(Len(cs))
                [] Len(args) = 1 /\ Type(args[1]) = ARRAY_OBJ ->
                     /\ Type(r) = INTEGER_OBJ
                     /\ r.int = Int64(Len(args[1].Elements))
                [] OTHER -> Type(r) = ERROR_OBJ

---------------------------------------------------------------------------
(* Claims about the operations of the Parser *)

\* errors' is errors with messages added at its end
AppendOnly ==
    /\ Len(errors') >= Len(errors)
    /\ SubSeq(errors', 1, Len(errors)) = errors

\* the step is the call expectPeek(t) and the peek token has kind t
ExpectPeekMatches ==
    /\ peeked' # peeked
    /\ peekToken(ParserState).Type = peeked'.t

ExpectPeekFails ==
    /\ peeked' # peeked
    /\ peekToken(ParserState).Type # peeked'.t

\* C24: expectPeek(t) with a peek token of kind t advances current and peek by
\* exactly one token, returns true and leaves the errors as they are; with
\* any other peek token it returns false, leaves current and peek where they
\* are and appends the one message "expected next token to be t, got (kind of
\* peek) instead".  No operation of the parser removes or changes a message
\* already in the list.
C24_ExpectPeek ==
    [][/\ AppendOnly
       /\ tokens' = tokens
       /\ ExpectPeekMatches =>
            /\ peeked'.ok
            /\ pos' = pos + 1
            /\ errors' = errors
       /\ ExpectPeekFails =>
            /\ ~peeked'.ok
            /\ pos' = pos
            /\ errors' = Append(errors, "expected next token to be " \o peeked'.t
                                        \o ", got " \o peekToken(ParserState).Type
                                        \o " instead")]_vars

\* expectPeek has returned false on a Parser that already held a message, and
\* that message is still the first of the list, before the new one
C24_SecondMessageAppended ==
    /\ peeked.t # ""
    /\ ~peeked.ok
    /\ Len(errors) >= 2
    /\ \E k \in Expected :
          errors[Len(errors)] = "expected next token to be " \o k \o ", got "
                                \o peekToken(ParserState).Type \o " instead"

\* the kinds of the tokens an expression can end on
Closers == {IDENT, INT, T_TRUE, T_FALSE, RPAREN, RBRACE}

\* how many tokens of kind t there are from position i to position j
RECURSIVE Count(_, _, _)
Count(t, i, j) ==
    IF i > j THEN 0
    ELSE (IF TokenAt(ParserState, i).Type = t THEN 1 ELSE 0) + Count(t, i + 1, j)

\* the tokens from position i to position j close every ( and { they open
Closed(i, j) ==
    /\ Count(LPAREN, i, j) = Count(RPAREN, i, j)
    /\ Count(LBRACE, i, j) = Count(RBRACE, i, j)

\* the call c of a parsing function returned on the last token of the
\* construct it was entered for
OnLastToken(c) ==
    LET first == tokens[c.from].Type
        last == TokenAt(ParserState, c.to).Type
    IN /\ Closed(c.from, c.to)
       /\ IF c.fn = "prefix" /\ first \in {IDENT, INT, T_TRUE, T_FALSE}
          THEN c.to = c.from
          ELSE c.to > c.from
       /\ CASE first = LPAREN -> last = RPAREN
            [] first \in {T_IF, FUNCTION} -> last = RBRACE
            [] OTHER -> last \in Closers

\* C25: every prefix and infix parsing function that returns a node other than
\* nil was entered on the first token of its construct (the operator or the
\* opening parenthesis, for an infix expression or a call) and returns on the
\* last token of that construct, never one token further.
C25_TokenPositionProtocol ==
    \A i \in DOMAIN parsed :
        parsed[i].node # NilNode => OnLastToken(parsed[i])

---------------------------------------------------------------------------
(* Claims about the order of evaluation *)

\* the names looked up by the step, in the order of the calls of evalIdentifier
NewLookups ==
    [i \in 1..(Len(lookups') - Len(lookups)) |-> lookups'[Len(lookups) + i].name]

Unbound(name) == ~Get(envs, GlobalEnv, name).ok

NotFound(obj, name) ==
    /\ Type(obj) = ERROR_OBJ
    /\ obj.str = "identifier not found: " \o name

\* the first of the identifiers exps with no binding, 0 when each has one
FirstUnbound(exps) ==
    IF \A i \in 1..Len(exps) : ~Unbound(exps[i].Value) THEN 0
    ELSE CHOOSE i \in 1..Len(exps) :
            Unbound(exps[i].Value) /\ \A j \in 1..(i - 1) : ~Unbound(exps[j].Value)

\* the statement evalProgram evaluates next is the expression e
Evaluating(e) ==
    /\ ~done
    /\ pc <= Len(program)
    /\ program[pc] = ES(e)

\* what C23 says of the step that evaluates the infix expression e
LeftErrorIsResult(e) ==
    \A l \in {Eval(e.Left, GlobalEnv, EvalState, <<>>)} :
        (~Dead(l) /\ isError(l.val)) =>
            /\ result' = l.val
            /\ lookups' = l.st.lookups
            /\ calls' = l.st.calls
            /\ nextAddr' = l.st.next

\* what C23 says of the step that evaluates the call e of an identifier on
\* arguments that are identifiers
CalleeThenArgumentsInOrder(e) ==
    LET f == e.Function.Value
        args == [i \in 1..Len(e.Arguments) |-> e.Arguments[i].Value]
        k == FirstUnbound(e.Arguments)
    IN IF Unbound(f) THEN NewLookups = <<f>> /\ NotFound(result', f)
       ELSE IF k # 0
       THEN /\ NewLookups = <<f>> \o SubSeq(args, 1, k)
            /\ NotFound(result', args[k])
            /\ calls' = calls
       ELSE /\ Len(NewLookups) > Len(args)
            /\ SubSeq(NewLookups, 1, Len(args) + 1) = <<f>> \o args

\* C23: the short circuit on an Error follows the order of evaluation.  An
\* infix expression whose left operand evaluates to an Error has that Error for
\* its value and its right operand is not evaluated.  In a call the callee is
\* evaluated before any argument and the arguments from left to right; the
\* Error of the first failing argument is the value of the call, no later
\* argument is evaluated and the body of the function is not run.
C23_ShortCircuitInOrder ==
    [][\A s \in {program[i].Expression : i \in {j \in DOMAIN program :
                      program[j].type = "ExpressionStatement"}} :
          Evaluating(s) =>
            /\ s.type = "InfixExpression" => LeftErrorIsResult(s)
            /\ (/\ s.type = "CallExpression"
                /\ s.Function.type = "Identifier"
                /\ \A i \in DOMAIN s.Arguments : s.Arguments[i].type = "Identifier")
                   => CalleeThenArgumentsInOrder(s)]_vars

\* f(one, a, b) has been evaluated with one bound and a, b unbound: f, one and
\* a were looked up in that order, b never, and no function was applied
C23_SecondArgumentFails ==
    /\ done
    /\ panic = ""
    /\ [i \in DOMAIN lookups |-> lookups[i].name] = <<"f", "one", "a">>
    /\ calls = <<>>
    /\ NotFound(result, "a")

\* C26: no binding of any environment ever holds an Error: let binds a value
\* only when it is not an Error, and a function body runs, with its
\* parameters bound, only when no argument evaluated to an Error.
C26_NoErrorBound ==
    \A e \in AllEnvs : \A n \in DOMAIN envs[e].store :
        envs[e].store[n].kind # ERROR_OBJ

\* a let whose value evaluated to an Error has been evaluated, and its name
\* has no binding
C26_FailingLetBindsNothing ==
    \E i \in DOMAIN evaluated :
        /\ evaluated[i].kind = ERROR_OBJ
        /\ program[evaluated[i].index].type = "LetStatement"
        /\ ~Get(envs, GlobalEnv, program[evaluated[i].index].Name.Value).ok

---------------------------------------------------------------------------
(* Claims about the operators *)

\* C21: evalInfixExpression on two operands that are not Errors dispatches in
\* this order: two Integers go to the integer arithmetic or comparison;
\* otherwise == and != give the Boolean singleton of the identity of the two
\* operands, never an Error; otherwise operands of two kinds give the Error
\* "type mismatch: L op R"; otherwise the Error "unknown operator: L op R".
C21_InfixDispatch ==
    operation.fn = "evalInfixExpression" =>
        LET op == operation.operator
            l == operation.left
            r == operation.right
            res == operation.result
            kinds == Type(l) \o " " \o op \o " " \o Type(r)
        IN IF Type(l) = INTEGER_OBJ /\ Type(r) = INTEGER_OBJ
           THEN \/ operation.panic = DivideByZero
                \/ /\ operation.panic = ""
                   /\ IF op \in {"+", "-", "*", "/"} THEN Type(res) = INTEGER_OBJ
                      ELSE res \in {TrueObj, FalseObj}
           ELSE /\ operation.panic = ""
                /\ IF op = "==" THEN res = (IF l.addr = r.addr THEN TrueObj ELSE FalseObj)
                   ELSE IF op = "!=" THEN res = (IF l.addr = r.addr THEN FalseObj ELSE TrueObj)
                   ELSE /\ Type(res) = ERROR_OBJ
                        /\ res.str = (IF Type(l) # Type(r) THEN "type mismatch: "
                                      ELSE "unknown operator: ") \o kinds

\* The integers of the claims: sixteen bytes, two's complement, lowest byte
\* first; neither the sum nor the product of two int64 leaves that range.
SignExtend(a) == [i \in 1..16 |-> IF i <= 8 THEN a[i] ELSE IF a[8] >= 128 THEN 255 ELSE 0]
ZeroExtend(a) == [i \in 1..16 |-> IF i <= 8 THEN a[i] ELSE 0]
ExactSum(x, y) == Carried([i \in 1..16 |-> x[i] + y[i]], 1, 0)
ExactNeg(x) == Carried(Complement(x), 1, 1)
ExactProduct(x, y) == Carried([k \in 1..16 |-> Column(x, y, k, 1)], 1, 0)
Abs(x) == IF IsNegative(x) THEN ExactNeg(x) ELSE x
\* x modulo 2^64, in the signed range
Reduced(x) == SubSeq(x, 1, 8)

\* q is the quotient of a by b truncated toward zero: |q| |b| <= |a| < (|q| + 1) |b|,
\* and q is zero or has the sign of the quotient
Truncated(q, a, b) ==
    /\ ~Below(Abs(a), ExactProduct(Abs(q), Abs(b)))
    /\ Below(Abs(a), ExactProduct(ExactSum(Abs(q), SignExtend(Int64(1))), Abs(b)))
    /\ \/ q = SignExtend(Int64(0))
       \/ IsNegative(q) = (IsNegative(a) # IsNegative(b))

\* the operators of C22 applied to Integers, without a division by zero
IntegerArithmetic ==
    /\ operation.panic = ""
    /\ Type(operation.right) = INTEGER_OBJ
    /\ \/ operation.fn = "evalMinusPrefixOperatorExpression"
       \/ /\ operation.fn = "evalInfixExpression"
          /\ Type(operation.left) = INTEGER_OBJ
          /\ operation.operator \in {"+", "-", "*", "/"}

\* what C22 says of +, -, * and the prefix -: the exact result, reduced
WrapsAround ==
    LET a == SignExtend(operation.left.int)
        b == SignExtend(operation.right.int)
        res == operation.result.int
    IN /\ Type(operation.result) = INTEGER_OBJ
       /\ operation.fn = "evalMinusPrefixOperatorExpression" => res = Reduced(ExactNeg(b))
       /\ operation.fn = "evalInfixExpression" =>
            /\ operation.operator = "+" => res = Reduced(ExactSum(a, b))
            /\ operation.operator = "-" => res = Reduced(ExactSum(a, ExactNeg(b)))
            /\ operation.operator = "*" => res = Reduced(ExactProduct(a, b))

IsQuotient == operation.fn = "evalInfixExpression" /\ operation.operator = "/"

\* C22 (as stated): Integers are 64-bit signed: +, -, * and the prefix - give
\* the mathematical result reduced modulo 2^64 into the signed range, and /
\* with a divisor other than zero gives the quotient truncated toward zero.
C22_SignedArithmetic ==
    IntegerArithmetic =>
        /\ WrapsAround
        /\ IsQuotient => Truncated(SignExtend(operation.result.int),
                                   SignExtend(operation.left.int),
                                   SignExtend(operation.right.int))

\* C22 (amended): as above, but the quotient truncated toward zero is reduced
\* modulo 2^64 into the signed range like the other results, so the minimum
\* value divided by -1 is the minimum value.
C22_QuotientWrapsToo ==
    IntegerArithmetic =>
        /\ WrapsAround
        /\ IsQuotient => \E q \in {SignExtend(operation.result.int),
                                    ZeroExtend(operation.result.int)} :
                             Truncated(q, SignExtend(operation.left.int),
                                       SignExtend(operation.right.int))

\* the minimum value has been divided by -1, and the minimum value came out
C22_MinimumByMinusOne ==
    /\ IntegerArithmetic
    /\ IsQuotient
    /\ operation.left.int = MinInt64
    /\ operation.right.int = Int64(0 - 1)
    /\ operation.result.int = MinInt64

\* C29: evalIntegerInfixExpression is total: for each of + - * / < > == != and
\* every pair of Integer operands, a right operand of 0 for / included, it
\* returns an Integer, a Boolean singleton or an Error, and no panic ends the
\* evaluation.
C29_IntegerInfixTotal ==
    (/\ operation.fn = "evalInfixExpression"
     /\ Type(operation.left) = INTEGER_OBJ
     /\ Type(operation.right) = INTEGER_OBJ) =>
        /\ operation.panic = ""
        /\ \/ Type(operation.result) \in {INTEGER_OBJ, ERROR_OBJ}
           \/ operation.result \in {TrueObj, FalseObj}

====
